---- MODULE Spec2Model ----
(***************************************************************************)
(* Resilient multi-endpoint access layer of rashadgaines/solbot:           *)
(*   - RateLimiter            (src/unnamed/part_000)                       *)
(*   - TokenMonitor, logger   (src/src/utils/logger.js, lines 37-741)      *)
(*   - TokenMonitor, monitor  (src/unnamed/part_001)                       *)
(*   - WalletTracker          (src/src/wallet-tracker.js, src/unnamed/part_006) *)
(* Time is Date.now() in milliseconds.  A setTimeout callback runs when    *)
(* the clock has reached its deadline; the clock never passes a pending    *)
(* deadline.                                                               *)
(***************************************************************************)
EXTENDS Integers, Sequences, FiniteSets, TLC

VARIABLES
    now,             \* Date.now()
    ev,              \* the last step taken (observation only, read by the properties)
    \* ---- RateLimiter (part_000)
    tokens,          \* this.tokens, in 1/TokenScale of a token
    lastRefill,      \* this.lastRefill
    rlFailureCount,  \* this.failureCount of the RateLimiter
    getTokenCalls,   \* deadlines of the getToken calls suspended at line 19, sorted
    failurePending,  \* failureCount as the last recordFailure left it, while neither
                     \* getToken nor recordSuccess has been called since; 0 otherwise
                     \* (observation only)
    returned,        \* the number of getToken calls that have returned since the
                     \* constructor, or NotCounted (observation only)
    \* ---- TokenMonitor (logger.js and part_001)
    impl,            \* which TokenMonitor class runs: "logger", "monitor", or "none"
    workload,        \* who calls the TokenMonitor: "api" (any caller of its methods),
                     \* "light" (any caller, few calls), "backoff" (one call,
                     \* errors for all its attempts), "repository" (the
                     \* WalletTracker of part_006), or "none"
    nEndpoints,      \* config.rpc.endpoints.length; endpoints are 0 .. nEndpoints-1
    currentRpcIndex, \* this.currentRpcIndex
    connection,      \* the endpoint this.connection is connected to
    failureCount,    \* this.failureCount: endpoint -> count (0 when absent)
    failureTimes,    \* per endpoint, the instants at which the recordFailure calls of the
                     \* preceding RESET_INTERVAL schedule their reset (observation only)
    endpointCooldowns, \* this.endpointCooldowns: endpoint -> cooldownUntil (0 when absent)
    endpointMetrics, \* this.endpointMetrics: endpoint -> metrics record
    timers,          \* pending setTimeout callbacks of recordFailure and rotateConnection
    priorityQueue,   \* this.priorityQueue
    requestQueue,    \* this.requestQueue
    isProcessingQueue, \* this.isProcessingQueue
    drainLoops,      \* the processQueue calls that are past their guard and not yet returned
    ops,             \* the executeWithCircuitBreaker calls in progress
    nextId,          \* number of queueRequest calls made so far
    rpcErrors,       \* number of RPC errors so far: rejected operations and
                     \* handleRpcError / rotateConnection calls from outside the queue
    \* ---- WalletTracker (wallet-tracker.js)
    sentAlerts,      \* the keys of this.sentAlerts
    alertsReturned,  \* signature -> number of records extractMemecoinTransaction returned
    \* ---- WalletTracker (part_006)
    lastWalletCheck, \* this.lastWalletCheck: wallet -> time (Absent when not set)
    trackCalls,      \* the trackWalletTransactions calls in progress
    checkStart,      \* wallet -> time its last processWalletTransactions call started
    nextTracking     \* time of the next setInterval callback of startMonitoring

rlVars == <<tokens, lastRefill, rlFailureCount, getTokenCalls, failurePending, returned>>
tmVars == <<impl, workload, nEndpoints, currentRpcIndex, connection, failureCount,
            failureTimes,
            endpointCooldowns, endpointMetrics, timers, priorityQueue, requestQueue,
            isProcessingQueue, drainLoops, ops, nextId, rpcErrors>>
wtVars == <<sentAlerts, alertsReturned, lastWalletCheck, trackCalls, checkStart,
            nextTracking>>
vars == <<now, ev, tokens, lastRefill, rlFailureCount, getTokenCalls, failurePending,
          returned,
          impl, workload, nEndpoints, currentRpcIndex, connection, failureCount,
          failureTimes,
          endpointCooldowns, endpointMetrics, timers, priorityQueue, requestQueue,
          isProcessingQueue, drainLoops, ops, nextId, rpcErrors,
          sentAlerts, alertsReturned, lastWalletCheck, trackCalls, checkStart,
          nextTracking>>

\* the WalletTracker before its constructor has run
NoWalletTracker ==
    /\ sentAlerts = {}
    /\ alertsReturned = <<>>
    /\ lastWalletCheck = <<>>
    /\ trackCalls = {}
    /\ checkStart = <<>>
    /\ nextTracking = 0

\* the TokenMonitor before its constructor has run (used by the RateLimiter runs)
NoTokenMonitor ==
    /\ impl = "none"
    /\ workload = "none"
    /\ nEndpoints = 0
    /\ currentRpcIndex = 0
    /\ connection = 0
    /\ failureCount = <<>>
    /\ failureTimes = <<>>
    /\ endpointCooldowns = <<>>
    /\ endpointMetrics = <<>>
    /\ timers = {}
    /\ priorityQueue = <<>>
    /\ requestQueue = <<>>
    /\ isProcessingQueue = FALSE
    /\ drainLoops = {}
    /\ ops = {}
    /\ nextId = 0
    /\ rpcErrors = 0

Min(a, b) == IF a <= b THEN a ELSE b
Max(a, b) == IF a >= b THEN a ELSE b

RECURSIVE Pow2(_)
Pow2(n) == IF n <= 0 THEN 1 ELSE 2 * Pow2(n - 1)

\* s with x inserted, s sorted ascending
RECURSIVE InsertSorted(_, _)
InsertSorted(s, x) ==
    IF s = <<>> THEN <<x>>
    ELSE IF x <= Head(s) THEN <<x>> \o s
    ELSE <<Head(s)>> \o InsertSorted(Tail(s), x)

(***************************************************************************)
(* RateLimiter                                                             *)
(***************************************************************************)
maxTokens == 15
refillRate == 1
baseDelay == 2000
maxDelay == 30000
\* timePassed = (now - lastRefill) / 1000: one token is TokenScale units
TokenScale == 1000

\* the runs that do not count the returns of getToken
NotCounted == 0 - 1
\* return true of line 24
Return(r) == IF r = NotCounted THEN r ELSE r + 1

NumCallers == 3          \* getToken calls that may be suspended at once
MaxFailureCount == 2     \* recordFailure is not called beyond this count
MaxTimeRL == 6000        \* the clock of the RateLimiter runs stop here
StepRL == 1000           \* granularity of the clock in the RateLimiter runs

\* _refillTokens: the token count after a refill at time t
refillTokensNoClamp(tok, last, t) == tok + (t - last) * refillRate
refillTokens(tok, last, t) ==
    Min(maxTokens * TokenScale, tok + (t - last) * refillRate)

\* _calculateWaitTime
calculateWaitTimeUncapped(fc) == baseDelay * Pow2(fc)
calculateWaitTime(fc) == Min(baseDelay * Min(Pow2(fc), 8), maxDelay)

InitRL ==
    /\ NoTokenMonitor
    /\ now = 0
    /\ ev = [op |-> "init"]
    /\ tokens = maxTokens * TokenScale
    /\ lastRefill = 0
    /\ rlFailureCount = 0
    /\ getTokenCalls = <<>>
    /\ failurePending = 0
    /\ returned = NotCounted
    /\ NoWalletTracker

\* getToken, lines 15-18 and, when a token is there, 23-24
getToken ==
    /\ Len(getTokenCalls) < NumCallers
    /\ LET t == refillTokens(tokens, lastRefill, now) IN
         /\ lastRefill' = now
         /\ IF t < TokenScale
            THEN /\ tokens' = t
                 /\ getTokenCalls' =
                        InsertSorted(getTokenCalls, now + calculateWaitTime(rlFailureCount))
                 /\ returned' = returned
                 /\ ev' = [op |-> "getTokenWait", wait |-> calculateWaitTime(rlFailureCount),
                           fc |-> rlFailureCount, refilled |-> t,
                           raw |-> tokens + (now - lastRefill) * refillRate,
                           afterFailure |-> failurePending]
            ELSE /\ tokens' = t - TokenScale
                 /\ getTokenCalls' = getTokenCalls
                 /\ returned' = Return(returned)
                 /\ ev' = [op |-> "getToken", refilled |-> t,
                           raw |-> tokens + (now - lastRefill) * refillRate,
                           afterFailure |-> failurePending]
    /\ failurePending' = 0
    /\ UNCHANGED <<now, rlFailureCount>>
    /\ UNCHANGED tmVars
    /\ UNCHANGED wtVars

\* getToken resumed after the setTimeout of line 19: lines 20, 23, 24
getTokenResume ==
    /\ getTokenCalls # <<>>
    /\ Head(getTokenCalls) <= now
    /\ LET t == refillTokens(tokens, lastRefill, now) IN
         /\ lastRefill' = now
         /\ tokens' = t - TokenScale
         /\ ev' = [op |-> "getTokenResume", refilled |-> t,
                   raw |-> tokens + (now - lastRefill) * refillRate]
    /\ getTokenCalls' = Tail(getTokenCalls)
    /\ returned' = Return(returned)
    /\ UNCHANGED <<now, rlFailureCount, failurePending>>
    /\ UNCHANGED tmVars
    /\ UNCHANGED wtVars

recordSuccess ==
    /\ rlFailureCount' = Max(0, rlFailureCount - 1)
    /\ failurePending' = 0
    /\ ev' = [op |-> "recordSuccess"]
    /\ UNCHANGED <<now, tokens, lastRefill, getTokenCalls, returned>>
    /\ UNCHANGED tmVars
    /\ UNCHANGED wtVars

recordFailure ==
    /\ rlFailureCount < MaxFailureCount
    /\ rlFailureCount' = rlFailureCount + 1
    /\ tokens' = 0
    /\ failurePending' = rlFailureCount + 1
    /\ ev' = [op |-> "recordFailure"]
    /\ UNCHANGED <<now, lastRefill, getTokenCalls, returned>>
    /\ UNCHANGED tmVars
    /\ UNCHANGED wtVars

\* time passes, up to the next setTimeout deadline
TickRL ==
    /\ LET t == IF getTokenCalls = <<>> THEN now + StepRL
                ELSE Min(now + StepRL, Head(getTokenCalls)) IN
         /\ t > now
         /\ t <= MaxTimeRL
         /\ now' = t
    /\ ev' = [op |-> "tick"]
    /\ UNCHANGED rlVars
    /\ UNCHANGED tmVars
    /\ UNCHANGED wtVars

NextRL == getToken \/ getTokenResume \/ recordSuccess \/ recordFailure \/ TickRL

SpecRL == InitRL /\ [][NextRL]_vars

\* The RateLimiter at any token level and failure count: recordFailure empties the
\* bucket and is called any number of times, a second of refill gives one token,
\* the constructor fills the bucket
MaxFailureCountAny == 4
TokenLevelsAny == {0, TokenScale, maxTokens * TokenScale}

InitRLAny ==
    /\ NoTokenMonitor
    /\ now = 0
    /\ ev = [op |-> "init"]
    /\ tokens \in TokenLevelsAny
    /\ lastRefill = 0
    /\ rlFailureCount \in 0 .. MaxFailureCountAny
    /\ getTokenCalls = <<>>
    /\ failurePending = 0
    /\ returned = NotCounted
    /\ NoWalletTracker

\* getToken is called up to MaxTimeRL
getTokenInTime ==
    /\ now <= MaxTimeRL
    /\ getToken

\* time passes, up to the next setTimeout deadline, and goes on beyond MaxTimeRL
\* as long as a getToken call is suspended
TickRLToDeadline ==
    /\ LET t == IF getTokenCalls = <<>> THEN now + StepRL
                ELSE Min(now + StepRL, Head(getTokenCalls)) IN
         /\ t > now
         /\ (t <= MaxTimeRL \/ getTokenCalls # <<>>)
         /\ now' = t
    /\ ev' = [op |-> "tick"]
    /\ UNCHANGED rlVars
    /\ UNCHANGED tmVars
    /\ UNCHANGED wtVars

NextRLFair ==
    getTokenInTime \/ getTokenResume \/ recordSuccess \/ recordFailure \/ TickRLToDeadline

\* the clock advances and a timer callback that is due is run
SpecRLFair ==
    InitRLAny /\ [][NextRLFair]_vars /\ WF_vars(TickRLToDeadline) /\ WF_vars(getTokenResume)

RefillOps == {"getToken", "getTokenWait", "getTokenResume"}

\* C3: the token count of the RateLimiter is never negative, whatever the
\* sequence of getToken, recordSuccess and recordFailure calls and the time
\* between them, also when several suspended getToken calls resume in turn.
C3_TokensNeverNegative == tokens >= 0

\* C4: the token count never exceeds maxTokens; a refill yields
\* min(maxTokens, tokens + elapsedSeconds * refillRate).
C4_TokensAtMostMax ==
    /\ tokens <= maxTokens * TokenScale
    /\ ev.op \in RefillOps => ev.refilled = Min(maxTokens * TokenScale, ev.raw)

\* a refill whose unclamped sum was above maxTokens has happened, and a token was taken
C4_Witness ==
    /\ ev.op = "getToken"
    /\ ev.raw > maxTokens * TokenScale
    /\ tokens = (maxTokens - 1) * TokenScale

(***************************************************************************)
(* TokenMonitor: what the two classes share                                *)
(*                                                                         *)
(* In the TokenMonitor runs the origin of the clock moves with the clock:  *)
(* now stays 0 and a step of d milliseconds lowers every stored instant    *)
(* (cooldownUntil, timestamp, setTimeout deadline) by d.  The code only    *)
(* compares stored instants with Date.now(), so the differences are all it *)
(* can observe.                                                            *)
(***************************************************************************)
FAILURE_THRESHOLD == 3
RESET_INTERVAL == 180000
COOLDOWN_DURATION == 60000
STALE_LIMIT == 60000

MaxRequestsLogger == 5   \* queueRequest is called at most this often (logger.js)
MaxRequestsMonitor == 4  \* queueRequest is called at most this often (part_001)
MaxRpcErrorsLogger == 4  \* at most this many RPC errors happen (logger.js)
MaxRpcErrorsMonitor == 2 \* at most this many RPC errors happen (part_001)
MaxWork == 5             \* queueRequest calls and RPC errors together
MaxRequestsRepository == 4   \* queueRequest calls of the WalletTracker
MaxRpcErrorsRepository == 3  \* RPC errors under the WalletTracker's calls

MaxRequestsLoggerLight == 2   \* queueRequest calls of the light workload (logger.js)
MaxRpcErrorsLoggerLight == 2  \* RPC errors of the light workload (logger.js)
MaxRequestsMonitorLight == 3  \* queueRequest calls of the light workload (part_001)
MaxRpcErrorsMonitorLight == 1 \* RPC errors of the light workload (part_001)
MaxRequestsBackoff == 1       \* queueRequest calls of the backoff workload (logger.js)
MaxRpcErrorsBackoff == 4      \* RPC errors of the backoff workload: MAX_ATTEMPTS of them

MaxRequests ==
    CASE workload = "repository" -> MaxRequestsRepository
      [] workload = "light" ->
            IF impl = "logger" THEN MaxRequestsLoggerLight ELSE MaxRequestsMonitorLight
      [] workload = "backoff" -> MaxRequestsBackoff
      [] OTHER -> IF impl = "logger" THEN MaxRequestsLogger ELSE MaxRequestsMonitor
MaxRpcErrors ==
    CASE workload = "repository" -> MaxRpcErrorsRepository
      [] workload = "light" ->
            IF impl = "logger" THEN MaxRpcErrorsLoggerLight ELSE MaxRpcErrorsMonitorLight
      [] workload = "backoff" -> MaxRpcErrorsBackoff
      [] OTHER -> IF impl = "logger" THEN MaxRpcErrorsLogger ELSE MaxRpcErrorsMonitor
MoreRequests ==
    nextId < MaxRequests /\ (workload # "api" \/ nextId + rpcErrors < MaxWork)
MoreRpcErrors ==
    rpcErrors < MaxRpcErrors /\ (workload # "api" \/ nextId + rpcErrors < MaxWork)

\* the priority arguments of queueRequest: the call that processWalletTransactions
\* reaches (part_006, lines 128-131) passes true
Priorities == IF workload = "repository" THEN {TRUE} ELSE BOOLEAN

Endpoints == 0 .. (nEndpoints - 1)

\* the drain loop was started by the setInterval callback, not by queueRequest
ByInterval == -1

\* no queueRequest call awaits the drain loop (requests are numbered from 1)
NoCaller == 0

\* the shape of ev in the TokenMonitor runs; settled holds the promises of
\* queueRequest that the step has settled, closed the endpoints whose open circuit
\* the step has closed
Ev0 ==
    [op |-> "init", invoked |-> {}, rotated |-> {}, batch |-> <<>>, dropped |-> <<>>,
     settled |-> {}, closed |-> {}]

\* queueRequest has no return statement: its promise resolves with undefined
Resolved(caller) ==
    IF caller = NoCaller THEN {}
    ELSE {[caller |-> caller, outcome |-> "undefined", of |-> NoCaller]}

RECURSIVE SeqToSet(_)
SeqToSet(s) == IF s = <<>> THEN {} ELSE {Head(s)} \cup SeqToSet(Tail(s))

Ids(s) == {x.id : x \in SeqToSet(s)}

isCircuitOpen(fc, e) == fc[e] >= FAILURE_THRESHOLD

\* cooldownUntil && Date.now() < cooldownUntil
isEndpointCooling(cd, e) == cd[e] # 0 /\ now < cd[e]

setCooldownSkipped(cd, e) == cd
setCooldown(cd, e) == [cd EXCEPT ![e] = now + COOLDOWN_DURATION]

\* recordFailure: the count, and the reset it schedules
recordFailureCount(fc, e) == [fc EXCEPT ![e] = fc[e] + 1]
recordFailureNoTimer(tm, e) == tm
recordFailureTimerLate(tm, e) ==
    tm \cup {[kind |-> "reset", at |-> now + 2 * RESET_INTERVAL, arg |-> e]}
recordFailureTimer(tm, e) == tm \cup {[kind |-> "reset", at |-> now + RESET_INTERVAL, arg |-> e]}

recordFailureTime(ft, e) == [ft EXCEPT ![e] = Append(@, now + RESET_INTERVAL)]

resetFailuresByOne(fc, e) == [fc EXCEPT ![e] = Max(0, fc[e] - 1)]
resetFailures(fc, e) == [fc EXCEPT ![e] = 0]

\* the drain loops after the operation id has resolved: Promise.all resolves when
\* its last operation has, and the loop then sleeps the batch interval
LoopsAfterResolve(loops, id, interval) ==
    {IF id \in l.pending
     THEN IF l.pending = {id}
          THEN [l EXCEPT !.pending = {}, !.phase = "interval", !.wake = now + interval]
          ELSE [l EXCEPT !.pending = l.pending \ {id}]
     ELSE l : l \in loops}

\* the drain loops after the operation id has rejected: Promise.all rejects and
\* processQueue leaves through its finally
LoopsAfterReject(loops, id) == {l \in loops : id \notin l.pending}

\* the callers of queueRequest whose await of processQueue rejects with operation id:
\* processWalletTransactions (part_006, lines 166-169) records a failure for the
\* endpoint it read at its start
RejectedOwners(loops, id) ==
    {l.owner : l \in {x \in loops : id \in x.pending /\ x.owner # ByInterval}}

\* the promises of queueRequest that reject with the error of operation id:
\* await this.processQueue() rethrows what Promise.all rejected with
RejectedCallers(loops, id) ==
    {[caller |-> l.caller, outcome |-> "error", of |-> id] :
        l \in {x \in loops : id \in x.pending /\ x.caller # NoCaller}}

RECURSIVE RecordAll(_, _)
RecordAll(fc, es) ==
    IF es = {} THEN fc
    ELSE LET e == CHOOSE x \in es : TRUE IN RecordAll(recordFailureCount(fc, e), es \ {e})

RECURSIVE RecordAllTimes(_, _)
RecordAllTimes(ft, es) ==
    IF es = {} THEN ft
    ELSE LET e == CHOOSE x \in es : TRUE IN RecordAllTimes(recordFailureTime(ft, e), es \ {e})

RecordAllTimers(tm, es) == tm \cup UNION {recordFailureTimer({}, e) : e \in es}

\* the setTimeout of recordFailure fires
resetTimerFires ==
    /\ impl \in {"logger", "monitor"}
    /\ \E t \in timers :
         /\ t.kind = "reset"
         /\ t.at <= now
         /\ failureCount' = [failureCount EXCEPT ![t.arg] = 0]
         /\ timers' = timers \ {t}
    /\ UNCHANGED failureTimes
    /\ ev' = [Ev0 EXCEPT !.op = "reset",
                         !.closed = {e \in Endpoints : /\ isCircuitOpen(failureCount, e)
                                                       /\ ~isCircuitOpen(failureCount', e)}]
    /\ UNCHANGED <<now, impl, workload, nEndpoints, currentRpcIndex, connection, endpointCooldowns,
                   endpointMetrics, priorityQueue, requestQueue, isProcessingQueue,
                   drainLoops, ops, nextId, rpcErrors>>
    /\ UNCHANGED rlVars
    /\ UNCHANGED wtVars

Sleeping == {"backoff429", "backoffOpen", "cooldown", "retryWait"}

\* deadlines of the pending setTimeout callbacks
Deadlines ==
    {o.wake : o \in {x \in ops : x.pc \in Sleeping}}
        \cup {l.wake : l \in {x \in drainLoops : x.phase = "interval"}}
        \cup {t.at : t \in timers}

\* instants at which a comparison with Date.now() changes its result
Thresholds ==
    {endpointCooldowns[e] : e \in Endpoints}
        \cup {x.timestamp + STALE_LIMIT :
                 x \in IF impl = "monitor"
                       THEN SeqToSet(priorityQueue) \cup SeqToSet(requestQueue) ELSE {}}

\* the recordFailure calls that are not older than RESET_INTERVAL, d later
RECURSIVE ShiftTimes(_, _)
ShiftTimes(ts, d) ==
    IF ts = <<>> THEN <<>>
    ELSE IF Head(ts) - d < now THEN ShiftTimes(Tail(ts), d)
    ELSE <<Head(ts) - d>> \o ShiftTimes(Tail(ts), d)

ShiftQueue(q, d) ==
    [i \in 1 .. Len(q) |-> [q[i] EXCEPT !.timestamp = Max(q[i].timestamp - d, 0 - STALE_LIMIT)]]

\* d milliseconds pass, at most up to the next setTimeout deadline
TickTM ==
    /\ impl \in {"logger", "monitor"}
    /\ \E t \in Deadlines \cup Thresholds :
         /\ t > now
         /\ \A x \in Deadlines : t <= x
         /\ LET d == t - now IN
              /\ endpointCooldowns' =
                     [e \in Endpoints |-> Max(0, endpointCooldowns[e] - d)]
              /\ timers' = {[x EXCEPT !.at = x.at - d] : x \in timers}
              /\ ops' = {IF x.pc \in Sleeping THEN [x EXCEPT !.wake = x.wake - d] ELSE x :
                            x \in ops}
              /\ drainLoops' = {IF x.phase = "interval" THEN [x EXCEPT !.wake = x.wake - d]
                                ELSE x : x \in drainLoops}
              /\ priorityQueue' = ShiftQueue(priorityQueue, d)
              /\ requestQueue' = ShiftQueue(requestQueue, d)
              /\ failureTimes' = [e \in Endpoints |-> ShiftTimes(failureTimes[e], d)]
    /\ ev' = [Ev0 EXCEPT !.op = "tick"]
    /\ UNCHANGED <<now, impl, workload, nEndpoints, currentRpcIndex, connection, failureCount,
                   endpointMetrics, isProcessingQueue, nextId, rpcErrors>>
    /\ UNCHANGED rlVars
    /\ UNCHANGED wtVars

\* the guard of processQueue: if (this.isProcessingQueue) return
ProcessQueueNoGuard == TRUE
ProcessQueueGuard == ~isProcessingQueue

(***************************************************************************)
(* TokenMonitor of src/src/utils/logger.js                                 *)
(***************************************************************************)
NumEndpointsLogger == 2
BATCH_SIZE_LOGGER == 3
BATCH_INTERVAL_LOGGER == 5000
FALLBACK_COOLDOWN == 30000
NumBackupEndpoints == 2

MAX_ATTEMPTS_ONE_MORE == nEndpoints * 2 + 1
MAX_ATTEMPTS == nEndpoints * 2
BACKOFF_TIME(attemptCount) == Min(1000 * Pow2(attemptCount), 32000)

\* rotateEndpoint calls the async isEndpointHealthy without await: the value
\* tested at line 157 is a Promise, which is truthy
isEndpointHealthy(e) == TRUE

\* rotateEndpoint, the while loop of lines 153-168
RECURSIVE rotateEndpointLoop(_, _, _, _)
rotateEndpointLoopNoCooling(idx, conn, cd, attempts) ==
    [idx |-> (idx + 1) % nEndpoints, conn |-> (idx + 1) % nEndpoints, ok |-> TRUE]
rotateEndpointLoop(idx, conn, cd, attempts) ==
    IF attempts < nEndpoints
    THEN LET newIdx == (idx + 1) % nEndpoints IN
         IF isEndpointHealthy(newIdx) /\ ~isEndpointCooling(cd, newIdx)
         THEN [idx |-> newIdx, conn |-> newIdx, ok |-> TRUE]
         ELSE rotateEndpointLoop(newIdx, conn, cd, attempts + 1)
    ELSE [idx |-> idx, conn |-> conn, ok |-> FALSE]

rotateEndpoint(idx, conn, cd) == rotateEndpointLoop(idx, conn, cd, 0)

Rotated(r) == IF r.ok THEN {r.idx} ELSE {}

\* executeWithCircuitBreaker(operation, attemptCount) up to its first await
EnterLoggerNoCircuitCheck(id, attemptCount, idx, conn) ==
    [op |-> [id |-> id, pc |-> "inflight", attempt |-> attemptCount,
             endpoint |-> idx, target |-> conn, wake |-> 0, k |-> 0],
     idx |-> idx, conn |-> conn, invoked |-> {conn}, rotated |-> {}]
EnterLogger(id, attemptCount, idx, conn) ==
    IF attemptCount >= MAX_ATTEMPTS
    THEN [op |-> [id |-> id, pc |-> "cooldown", attempt |-> attemptCount,
                  endpoint |-> idx, target |-> conn,
                  wake |-> now + FALLBACK_COOLDOWN, k |-> 0],
          idx |-> idx, conn |-> conn, invoked |-> {}, rotated |-> {}]
    ELSE IF isCircuitOpen(failureCount, idx)
    THEN LET r == rotateEndpoint(idx, conn, endpointCooldowns) IN
         [op |-> [id |-> id, pc |-> "backoffOpen", attempt |-> attemptCount,
                  endpoint |-> idx, target |-> conn,
                  wake |-> now + BACKOFF_TIME(attemptCount), k |-> 0],
          idx |-> r.idx, conn |-> r.conn, invoked |-> {}, rotated |-> Rotated(r)]
    ELSE [op |-> [id |-> id, pc |-> "inflight", attempt |-> attemptCount,
                  endpoint |-> idx, target |-> conn, wake |-> 0, k |-> 0],
          idx |-> idx, conn |-> conn, invoked |-> {conn}, rotated |-> {}]

\* batch.map(request => this.executeWithCircuitBreaker(request.operation)):
\* the calls run one after the other, each up to its first await
RECURSIVE DispatchLogger(_, _, _)
DispatchLogger(batch, idx, conn) ==
    IF batch = <<>>
    THEN [ops |-> {}, idx |-> idx, conn |-> conn, invoked |-> {}, rotated |-> {}]
    ELSE LET r == EnterLogger(Head(batch).id, 0, idx, conn)
             rest == DispatchLogger(Tail(batch), r.idx, r.conn)
         IN [ops |-> {r.op} \cup rest.ops, idx |-> rest.idx, conn |-> rest.conn,
             invoked |-> r.invoked \cup rest.invoked,
             rotated |-> r.rotated \cup rest.rotated]

\* the inner while loop of processQueue, lines 433-436
RECURSIVE FormBatchLogger(_, _, _)
FormBatchLoggerNormalFirst(batch, pq, rq) ==
    LET n == Min(BATCH_SIZE_LOGGER, Len(rq) + Len(pq)) IN
    [batch |-> SubSeq(rq \o pq, 1, n),
     pq |-> SubSeq(pq, Max(0, n - Len(rq)) + 1, Len(pq)),
     rq |-> SubSeq(rq, Min(n, Len(rq)) + 1, Len(rq)),
     dropped |-> <<>>]
FormBatchLogger(batch, pq, rq) ==
    IF Len(batch) < BATCH_SIZE_LOGGER /\ (Len(pq) > 0 \/ Len(rq) > 0)
    THEN IF Len(pq) > 0
         THEN FormBatchLogger(Append(batch, Head(pq)), Tail(pq), rq)
         ELSE FormBatchLogger(Append(batch, Head(rq)), pq, Tail(rq))
    ELSE [batch |-> batch, pq |-> pq, rq |-> rq, dropped |-> <<>>]

\* processQueue from the while test of line 429 on, entered with the queues pq, rq;
\* loops0 are the other drain loops, owner is who awaits this one
LoggerLoop(pq, rq, loops0, owner, caller, name) ==
    IF Len(pq) = 0 /\ Len(rq) = 0
    THEN /\ priorityQueue' = pq
         /\ requestQueue' = rq
         /\ isProcessingQueue' = FALSE
         /\ drainLoops' = loops0
         /\ UNCHANGED <<ops, currentRpcIndex, connection>>
         /\ ev' = [Ev0 EXCEPT !.op = name, !.settled = Resolved(caller)]
    ELSE LET b == FormBatchLogger(<<>>, pq, rq)
             d == DispatchLogger(b.batch, currentRpcIndex, connection)
         IN /\ priorityQueue' = b.pq
            /\ requestQueue' = b.rq
            /\ isProcessingQueue' = TRUE
            /\ drainLoops' = loops0 \cup
                   {[pending |-> Ids(b.batch), phase |-> "batch", wake |-> 0,
                     owner |-> owner, caller |-> caller]}
            /\ ops' = ops \cup d.ops
            /\ currentRpcIndex' = d.idx
            /\ connection' = d.conn
            /\ ev' = [Ev0 EXCEPT !.op = name, !.batch = b.batch,
                                 !.invoked = d.invoked, !.rotated = d.rotated]

\* queueRequest(request, priority).  Its caller in the repository is
\* WalletTracker.processWalletTransactions (part_006, lines 124-171), which reads
\* the active endpoint first and, when the awaited call rejects, records a
\* failure for that endpoint
queueRequestLogger ==
    /\ impl = "logger"
    /\ MoreRequests
    /\ nextId' = nextId + 1
    /\ \E priority \in Priorities :
         LET item == [id |-> nextId + 1, timestamp |-> now, priority |-> priority]
             pq == IF priority THEN Append(priorityQueue, item) ELSE priorityQueue
             rq == IF priority THEN requestQueue ELSE Append(requestQueue, item)
         IN IF ~isProcessingQueue /\ ProcessQueueGuard
            THEN LoggerLoop(pq, rq, drainLoops, currentRpcIndex, nextId + 1, "queueRequest")
            ELSE /\ priorityQueue' = pq
                 /\ requestQueue' = rq
                 /\ UNCHANGED <<isProcessingQueue, drainLoops, ops, currentRpcIndex,
                                connection>>
                 /\ ev' = [Ev0 EXCEPT !.op = "enqueue", !.settled = Resolved(nextId + 1)]
    /\ UNCHANGED <<now, impl, workload, nEndpoints, failureCount, failureTimes, endpointCooldowns, endpointMetrics,
                   timers, rpcErrors>>
    /\ UNCHANGED rlVars
    /\ UNCHANGED wtVars

\* processQueue called by the setInterval of line 70
processQueueLogger ==
    /\ impl = "logger"
    /\ IF ProcessQueueGuard
       THEN LoggerLoop(priorityQueue, requestQueue, drainLoops, ByInterval, NoCaller,
                       "processQueue")
       ELSE /\ ev' = [Ev0 EXCEPT !.op = "processQueueReturn"]
            /\ UNCHANGED <<priorityQueue, requestQueue, isProcessingQueue, drainLoops, ops,
                           currentRpcIndex, connection>>
    /\ UNCHANGED <<now, impl, workload, nEndpoints, failureCount, failureTimes, endpointCooldowns, endpointMetrics,
                   timers, nextId, rpcErrors>>
    /\ UNCHANGED rlVars
    /\ UNCHANGED wtVars

\* processQueue resumed after the batch interval, line 444
batchIntervalLogger ==
    /\ impl = "logger"
    /\ \E l \in drainLoops :
         /\ l.phase = "interval"
         /\ l.wake <= now
         /\ LoggerLoop(priorityQueue, requestQueue, drainLoops \ {l}, l.owner, l.caller,
                       "nextBatch")
    /\ UNCHANGED <<now, impl, workload, nEndpoints, failureCount, failureTimes, endpointCooldowns, endpointMetrics,
                   timers, nextId, rpcErrors>>
    /\ UNCHANGED rlVars
    /\ UNCHANGED wtVars

\* operation(this.connection) of line 295 resolves
operationSucceedsLogger ==
    /\ impl = "logger"
    /\ \E o \in ops :
         /\ o.pc = "inflight"
         /\ failureCount' = resetFailures(failureCount, o.endpoint)
         /\ UNCHANGED failureTimes
         /\ ops' = ops \ {o}
         /\ drainLoops' = LoopsAfterResolve(drainLoops, o.id, BATCH_INTERVAL_LOGGER)
         /\ ev' = [Ev0 EXCEPT !.op = "success",
                              !.closed = {e \in Endpoints :
                                             /\ isCircuitOpen(failureCount, e)
                                             /\ ~isCircuitOpen(failureCount', e)}]
    /\ UNCHANGED <<now, impl, workload, nEndpoints, currentRpcIndex, connection, endpointCooldowns,
                   endpointMetrics, timers, priorityQueue, requestQueue, isProcessingQueue,
                   nextId, rpcErrors>>
    /\ UNCHANGED rlVars
    /\ UNCHANGED wtVars

\* operation(this.connection) rejects with a 429: lines 299-301
operationRateLimitedLogger ==
    /\ impl = "logger"
    /\ MoreRpcErrors
    /\ rpcErrors' = rpcErrors + 1
    /\ \E o \in ops :
         /\ o.pc = "inflight"
         /\ failureCount' = recordFailureCount(failureCount, o.endpoint)
         /\ failureTimes' = recordFailureTime(failureTimes, o.endpoint)
         /\ timers' = recordFailureTimer(timers, o.endpoint)
         /\ ops' = (ops \ {o}) \cup
                {[o EXCEPT !.pc = "backoff429", !.wake = now + BACKOFF_TIME(o.attempt)]}
         /\ ev' = [Ev0 EXCEPT !.op = "rateLimited"]
    /\ UNCHANGED <<now, impl, workload, nEndpoints, currentRpcIndex, connection, endpointCooldowns,
                   endpointMetrics, priorityQueue, requestQueue, isProcessingQueue,
                   drainLoops, nextId>>
    /\ UNCHANGED rlVars
    /\ UNCHANGED wtVars

\* finally { this.isProcessingQueue = false } of the processQueue calls that
\* operation id makes reject
ProcessingWithoutFinally(loops, id, flag) == flag
ProcessingStaysSet(loops, id, flag) == TRUE
ProcessingAfterReject(loops, id, flag) ==
    IF \E l \in loops : id \in l.pending THEN FALSE ELSE flag

\* an executeWithCircuitBreaker call rejects: its drain loop, if it still awaits
\* the batch, leaves through finally, and the caller that awaits it records a failure
Reject(o, fc, tm, ft) ==
    /\ ops' = ops \ {o}
    /\ drainLoops' = LoopsAfterReject(drainLoops, o.id)
    /\ isProcessingQueue' = ProcessingAfterReject(drainLoops, o.id, isProcessingQueue)
    /\ failureCount' = RecordAll(fc, RejectedOwners(drainLoops, o.id))
    /\ failureTimes' = RecordAllTimes(ft, RejectedOwners(drainLoops, o.id))
    /\ timers' = RecordAllTimers(tm, RejectedOwners(drainLoops, o.id))

\* operation(this.connection) rejects with another error: lines 299, 305
operationFailsLogger ==
    /\ impl = "logger"
    /\ MoreRpcErrors
    /\ rpcErrors' = rpcErrors + 1
    /\ \E o \in ops :
         /\ o.pc = "inflight"
         /\ Reject(o, recordFailureCount(failureCount, o.endpoint),
                         recordFailureTimer(timers, o.endpoint),
                         recordFailureTime(failureTimes, o.endpoint))
         /\ ev' = [Ev0 EXCEPT !.op = "failure",
                              !.settled = RejectedCallers(drainLoops, o.id)]
    /\ UNCHANGED <<now, impl, workload, nEndpoints, currentRpcIndex, connection, endpointCooldowns,
                   endpointMetrics, priorityQueue, requestQueue, nextId>>
    /\ UNCHANGED rlVars
    /\ UNCHANGED wtVars

\* executeWithCircuitBreaker resumed after one of its setTimeout waits
backoffEndsLogger ==
    /\ impl = "logger"
    /\ \E o \in ops :
         /\ o.pc \in {"backoff429", "backoffOpen", "cooldown"}
         /\ o.wake <= now
         /\ IF o.pc = "cooldown"
            THEN \* line 283: executeFallbackStrategy starts with the first backup endpoint
                 /\ ops' = (ops \ {o}) \cup {[o EXCEPT !.pc = "fallback", !.k = 1, !.wake = 0]}
                 /\ UNCHANGED <<currentRpcIndex, connection>>
                 /\ ev' = [Ev0 EXCEPT !.op = "fallback"]
            ELSE LET r == IF o.pc = "backoff429"
                          THEN rotateEndpoint(currentRpcIndex, connection, endpointCooldowns)
                          ELSE [idx |-> currentRpcIndex, conn |-> connection, ok |-> FALSE]
                     e == EnterLogger(o.id, o.attempt + 1, r.idx, r.conn)
                 IN /\ ops' = (ops \ {o}) \cup {e.op}
                    /\ currentRpcIndex' = e.idx
                    /\ connection' = e.conn
                    /\ ev' = [Ev0 EXCEPT !.op = "retry", !.invoked = e.invoked,
                                         !.rotated = Rotated(r) \cup e.rotated]
    /\ UNCHANGED <<now, impl, workload, nEndpoints, failureCount, failureTimes, endpointCooldowns, endpointMetrics,
                   timers, priorityQueue, requestQueue, isProcessingQueue, drainLoops,
                   nextId, rpcErrors>>
    /\ UNCHANGED rlVars
    /\ UNCHANGED wtVars

\* executeFallbackStrategy: operation(tempConnection) settles
fallbackSettlesLogger ==
    /\ impl = "logger"
    /\ \E o \in ops, ok \in BOOLEAN :
         /\ o.pc = "fallback"
         /\ IF ok
            THEN /\ ops' = ops \ {o}
                 /\ drainLoops' = LoopsAfterResolve(drainLoops, o.id, BATCH_INTERVAL_LOGGER)
                 /\ UNCHANGED <<isProcessingQueue, failureCount, failureTimes, timers>>
            ELSE IF o.k < NumBackupEndpoints
            THEN /\ ops' = (ops \ {o}) \cup {[o EXCEPT !.k = o.k + 1]}
                 /\ UNCHANGED <<drainLoops, isProcessingQueue, failureCount, failureTimes, timers>>
            ELSE Reject(o, failureCount, timers, failureTimes)
         /\ ev' = [Ev0 EXCEPT !.op = "fallbackSettled",
                              !.settled = IF ~ok /\ o.k >= NumBackupEndpoints
                                          THEN RejectedCallers(drainLoops, o.id) ELSE {}]
    /\ UNCHANGED <<now, impl, workload, nEndpoints, currentRpcIndex, connection,
                   endpointCooldowns, endpointMetrics, priorityQueue, requestQueue,
                   nextId, rpcErrors>>
    /\ UNCHANGED rlVars
    /\ UNCHANGED wtVars

\* handleRpcError(error), lines 184-205, up to its await; no code of the
\* repository calls it
handleRpcErrorLogger ==
    /\ impl = "logger"
    /\ workload # "repository"
    /\ MoreRpcErrors
    /\ rpcErrors' = rpcErrors + 1
    /\ \E kind \in {"429", "timeout"} :
         IF kind = "429"
         THEN LET cd == setCooldown(endpointCooldowns, currentRpcIndex)
                  r == rotateEndpoint(currentRpcIndex, connection, cd)
              IN /\ endpointCooldowns' = cd
                 /\ currentRpcIndex' = r.idx
                 /\ connection' = r.conn
                 /\ UNCHANGED <<failureCount, failureTimes, timers>>
                 /\ ev' = [Ev0 EXCEPT !.op = "handleRpcError", !.rotated = Rotated(r)]
         ELSE LET r == rotateEndpoint(currentRpcIndex, connection, endpointCooldowns)
              IN /\ failureCount' = recordFailureCount(failureCount, currentRpcIndex)
                 /\ failureTimes' = recordFailureTime(failureTimes, currentRpcIndex)
                 /\ timers' = recordFailureTimer(timers, currentRpcIndex)
                 /\ currentRpcIndex' = r.idx
                 /\ connection' = r.conn
                 /\ UNCHANGED endpointCooldowns
                 /\ ev' = [Ev0 EXCEPT !.op = "handleRpcError", !.rotated = Rotated(r)]
    /\ UNCHANGED <<now, impl, workload, nEndpoints, endpointMetrics, priorityQueue, requestQueue,
                   isProcessingQueue, drainLoops, ops, nextId>>
    /\ UNCHANGED rlVars
    /\ UNCHANGED wtVars

LoggerConstructed ==
    /\ impl = "logger"
    /\ nEndpoints = NumEndpointsLogger
    /\ currentRpcIndex = 0
    /\ connection = 0
    /\ failureCount = [e \in 0 .. (NumEndpointsLogger - 1) |-> 0]
    /\ failureTimes = [e \in 0 .. (NumEndpointsLogger - 1) |-> <<>>]
    /\ endpointCooldowns = [e \in 0 .. (NumEndpointsLogger - 1) |-> 0]
    \* no decision of this class that is modelled here reads the metrics
    /\ endpointMetrics = [e \in 0 .. (NumEndpointsLogger - 1) |-> 0]
    /\ timers = {}
    /\ priorityQueue = <<>>
    /\ requestQueue = <<>>
    /\ isProcessingQueue = FALSE
    /\ drainLoops = {}
    /\ ops = {}
    /\ nextId = 0
    /\ rpcErrors = 0
    /\ now = 0
    /\ ev = Ev0
    /\ tokens = 0
    /\ lastRefill = 0
    /\ rlFailureCount = 0
    /\ getTokenCalls = <<>>
    /\ failurePending = 0
    /\ returned = NotCounted
    /\ NoWalletTracker

InitLogger == LoggerConstructed /\ workload = "api"

NextLogger ==
    \/ queueRequestLogger
    \/ processQueueLogger
    \/ batchIntervalLogger
    \/ operationSucceedsLogger
    \/ operationRateLimitedLogger
    \/ operationFailsLogger
    \/ backoffEndsLogger
    \/ fallbackSettlesLogger
    \/ handleRpcErrorLogger
    \/ resetTimerFires
    \/ TickTM

SpecLogger == InitLogger /\ [][NextLogger]_vars

\* the TokenMonitor of logger.js as the WalletTracker of part_006 drives it
InitLoggerRepository == LoggerConstructed /\ workload = "repository"

NextLoggerRepository ==
    \/ queueRequestLogger
    \/ processQueueLogger
    \/ batchIntervalLogger
    \/ operationSucceedsLogger
    \/ operationRateLimitedLogger
    \/ operationFailsLogger
    \/ backoffEndsLogger
    \/ fallbackSettlesLogger
    \/ resetTimerFires
    \/ TickTM

SpecLoggerRepository == InitLoggerRepository /\ [][NextLoggerRepository]_vars

(***************************************************************************)
(* TokenMonitor of src/unnamed/part_001                                    *)
(***************************************************************************)
NumEndpointsMonitor == 3
BATCH_SIZE_MONITOR == 2
BATCH_INTERVAL_MONITOR == 8000
RETRY_DELAY == 10000
SETTLE_DELAY == 30000
HEALTHY_SCORE == 700     \* 0.7, in thousandths

\* a JavaScript NaN; undefined behaves as NaN in the arithmetic of this class
NaN == -1

\* the metrics object of initializeEndpointMetrics: averageLatency and
\* consecutiveFailures are not among its properties
InitialMetrics ==
    [successCount |-> 0, failureCount |-> 0, rateLimitHits |-> 0,
     averageLatency |-> NaN, consecutiveFailures |-> NaN]

\* x++ and (x + y) / 2
Increment(x) == IF x = NaN THEN NaN ELSE x + 1
Average(x, y) == IF x = NaN \/ y = NaN THEN NaN ELSE (x + y) \div 2

\* getEndpointHealth, in thousandths
getEndpointHealthAlwaysHealthy(m) == 1000
getEndpointHealth(m) ==
    IF m.averageLatency = NaN \/ m.successCount + m.failureCount = 0
    THEN NaN
    ELSE (400 * Max(0, 10 - m.rateLimitHits)) \div 10
             + (400 * m.successCount) \div (m.successCount + m.failureCount)
             + (200 * Max(0, 1000 - m.averageLatency)) \div 1000

\* a > b of JavaScript
GreaterThan(a, b) == a # NaN /\ b # NaN /\ a > b

\* healthyEndpoints.sort(...)[0]: the sort is stable, so among the endpoints of
\* the highest health the first of the configuration is taken
BestEndpoint(healthy, metrics) ==
    CHOOSE e \in healthy :
        /\ \A x \in healthy : getEndpointHealth(metrics[x]) <= getEndpointHealth(metrics[e])
        /\ \A x \in healthy :
               getEndpointHealth(metrics[x]) = getEndpointHealth(metrics[e]) => e <= x

\* rotateConnection up to its first await
rotateConnection(idx, conn, cd, metrics, tm) ==
    LET cd1 == setCooldown(cd, idx)
        healthyEndpoints ==
            {e \in Endpoints : /\ ~isEndpointCooling(cd1, e)
                               /\ GreaterThan(getEndpointHealth(metrics[e]), HEALTHY_SCORE)}
    IN IF healthyEndpoints = {}
       THEN [idx |-> idx, conn |-> conn, cd |-> cd1, rotated |-> {},
             timers |-> tm \cup {[kind |-> "rotate", at |-> now + SETTLE_DELAY, arg |-> 0]}]
       ELSE LET nextEndpoint == BestEndpoint(healthyEndpoints, metrics) IN
            [idx |-> nextEndpoint, conn |-> nextEndpoint, cd |-> cd1,
             rotated |-> {nextEndpoint}, timers |-> tm]

\* the inner while loop of processQueue, lines 421-426
RECURSIVE FormBatchMonitor(_, _, _, _)
FormBatchMonitorKeepStale(batch, pq, rq, dropped) ==
    [batch |-> SubSeq(pq \o rq, 1, Min(BATCH_SIZE_MONITOR, Len(pq) + Len(rq))),
     pq |-> SubSeq(pq, Min(BATCH_SIZE_MONITOR, Len(pq)) + 1, Len(pq)),
     rq |-> SubSeq(rq, Max(0, Min(BATCH_SIZE_MONITOR - Len(pq), Len(rq))) + 1, Len(rq)),
     dropped |-> <<>>]
FormBatchMonitor(batch, pq, rq, dropped) ==
    IF Len(batch) < BATCH_SIZE_MONITOR /\ (Len(pq) > 0 \/ Len(rq) > 0)
    THEN LET request == IF Len(pq) > 0 THEN Head(pq) ELSE Head(rq)
             pq1 == IF Len(pq) > 0 THEN Tail(pq) ELSE pq
             rq1 == IF Len(pq) > 0 THEN rq ELSE Tail(rq)
         IN IF now - request.timestamp < STALE_LIMIT
            THEN FormBatchMonitor(Append(batch, request), pq1, rq1, dropped)
            ELSE FormBatchMonitor(batch, pq1, rq1, Append(dropped, request))
    ELSE [batch |-> batch, pq |-> pq, rq |-> rq, dropped |-> dropped]

\* batch.map(request => this.executeWithCircuitBreaker(request.operation)): every
\* call reads the endpoint and calls operation(this.connection)
DispatchMonitor(batch, idx, conn) ==
    {[id |-> x.id, pc |-> "inflight", attempt |-> 0, endpoint |-> idx, target |-> conn,
      wake |-> 0, k |-> 0] : x \in SeqToSet(batch)}

\* processQueue from the while test of line 417 on
MonitorLoop(pq, rq, loops0, owner, caller, name) ==
    LET b == FormBatchMonitor(<<>>, pq, rq, <<>>) IN
    /\ priorityQueue' = b.pq
    /\ requestQueue' = b.rq
    /\ IF Len(b.batch) > 0
       THEN /\ isProcessingQueue' = TRUE
            /\ drainLoops' = loops0 \cup
                   {[pending |-> Ids(b.batch), phase |-> "batch", wake |-> 0,
                     owner |-> owner, caller |-> caller]}
            /\ ops' = ops \cup DispatchMonitor(b.batch, currentRpcIndex, connection)
            /\ ev' = [Ev0 EXCEPT !.op = name, !.batch = b.batch, !.dropped = b.dropped,
                                 !.invoked = {connection}]
       ELSE \* nothing was taken, or only stale requests: the queues are empty now
            /\ isProcessingQueue' = FALSE
            /\ drainLoops' = loops0
            /\ ops' = ops
            /\ ev' = [Ev0 EXCEPT !.op = name, !.dropped = b.dropped,
                                 !.settled = Resolved(caller)]

\* queueRequest(request, priority), called by processWalletTransactions
queueRequestMonitor ==
    /\ impl = "monitor"
    /\ MoreRequests
    /\ nextId' = nextId + 1
    /\ \E priority \in Priorities :
         LET item == [id |-> nextId + 1, timestamp |-> now, priority |-> priority]
             pq == IF priority THEN Append(priorityQueue, item) ELSE priorityQueue
             rq == IF priority THEN requestQueue ELSE Append(requestQueue, item)
         IN IF ~isProcessingQueue /\ ProcessQueueGuard
            THEN MonitorLoop(pq, rq, drainLoops, currentRpcIndex, nextId + 1, "queueRequest")
            ELSE /\ priorityQueue' = pq
                 /\ requestQueue' = rq
                 /\ UNCHANGED <<isProcessingQueue, drainLoops, ops>>
                 /\ ev' = [Ev0 EXCEPT !.op = "enqueue", !.settled = Resolved(nextId + 1)]
    /\ UNCHANGED <<now, impl, workload, nEndpoints, currentRpcIndex, connection, failureCount, failureTimes,
                   endpointCooldowns, endpointMetrics, timers, rpcErrors>>
    /\ UNCHANGED rlVars
    /\ UNCHANGED wtVars

\* processQueue called by the setInterval of line 51
processQueueMonitor ==
    /\ impl = "monitor"
    /\ IF ProcessQueueGuard
       THEN MonitorLoop(priorityQueue, requestQueue, drainLoops, ByInterval, NoCaller,
                        "processQueue")
       ELSE /\ ev' = [Ev0 EXCEPT !.op = "processQueueReturn"]
            /\ UNCHANGED <<priorityQueue, requestQueue, isProcessingQueue, drainLoops, ops>>
    /\ UNCHANGED <<now, impl, workload, nEndpoints, currentRpcIndex, connection, failureCount, failureTimes,
                   endpointCooldowns, endpointMetrics, timers, nextId, rpcErrors>>
    /\ UNCHANGED rlVars
    /\ UNCHANGED wtVars

\* the metrics after operation(this.connection) has settled, lines 279-302.  When
\* the operation resolves, line 284 reads metrics.lastMinuteRequests, which is
\* undefined: the TypeError is caught by the catch of line 293
MetricsAfter(m, outcome) ==
    LET ok == [m EXCEPT !.successCount = m.successCount + 1,
                        !.consecutiveFailures = 0,
                        !.averageLatency = Average(m.averageLatency, 0)]
        m1 == IF outcome = "ok" THEN ok ELSE m
        m2 == [m1 EXCEPT !.failureCount = m1.failureCount + 1,
                         !.consecutiveFailures = Increment(m1.consecutiveFailures)]
    IN IF outcome = "429" THEN [m2 EXCEPT !.rateLimitHits = m2.rateLimitHits + 1] ELSE m2

\* the catch of lines 431-439 belongs to the first executeWithCircuitBreaker call
\* of a request; the call it reschedules has no catch of its own
RetriesAfter429Always(o, outcome) == outcome = "429"
RetriesAfter429(o, outcome) == outcome = "429" /\ o.attempt = 0

\* operation(this.connection) of line 279 settles, and executeWithCircuitBreaker
\* rejects; the catch of processQueue (lines 431-439) handles a 429 of the first try
operationSettlesMonitor ==
    /\ impl = "monitor"
    /\ \E o \in ops, outcome \in {"ok", "429", "error"} :
         /\ o.pc = "inflight"
         /\ IF outcome = "ok" THEN UNCHANGED rpcErrors
            ELSE MoreRpcErrors /\ rpcErrors' = rpcErrors + 1
         /\ endpointMetrics' =
                [endpointMetrics EXCEPT ![o.endpoint] = MetricsAfter(@, outcome)]
         /\ IF RetriesAfter429(o, outcome)
            THEN LET r == rotateConnection(currentRpcIndex, connection, endpointCooldowns,
                                           endpointMetrics', timers)
                 IN /\ currentRpcIndex' = r.idx
                    /\ connection' = r.conn
                    /\ endpointCooldowns' = r.cd
                    /\ timers' = r.timers
                    /\ ops' = (ops \ {o}) \cup
                           {[o EXCEPT !.pc = "retryWait", !.wake = now + RETRY_DELAY]}
                    /\ UNCHANGED <<drainLoops, isProcessingQueue, failureCount, failureTimes>>
                    /\ ev' = [Ev0 EXCEPT !.op = "rateLimited", !.rotated = r.rotated]
            ELSE /\ Reject(o, failureCount, timers, failureTimes)
                 /\ UNCHANGED <<currentRpcIndex, connection, endpointCooldowns>>
                 /\ ev' = [Ev0 EXCEPT !.op = "failure",
                                      !.settled = RejectedCallers(drainLoops, o.id)]
    /\ UNCHANGED <<now, impl, workload, nEndpoints, priorityQueue, requestQueue, nextId>>
    /\ UNCHANGED rlVars
    /\ UNCHANGED wtVars

\* the setTimeout of line 435 fires: the rescheduled executeWithCircuitBreaker
retryMonitor ==
    /\ impl = "monitor"
    /\ \E o \in ops :
         /\ o.pc = "retryWait"
         /\ o.wake <= now
         /\ ops' = (ops \ {o}) \cup
                {[o EXCEPT !.pc = "inflight", !.attempt = o.attempt + 1, !.wake = 0,
                           !.endpoint = currentRpcIndex, !.target = connection]}
         /\ ev' = [Ev0 EXCEPT !.op = "retry", !.invoked = {connection}]
    /\ UNCHANGED <<now, impl, workload, nEndpoints, currentRpcIndex, connection, failureCount, failureTimes,
                   endpointCooldowns, endpointMetrics, timers, priorityQueue, requestQueue,
                   isProcessingQueue, drainLoops, nextId, rpcErrors>>
    /\ UNCHANGED rlVars
    /\ UNCHANGED wtVars

RotateMonitor(tm, name) ==
    LET r == rotateConnection(currentRpcIndex, connection, endpointCooldowns,
                              endpointMetrics, tm)
    IN /\ currentRpcIndex' = r.idx
       /\ connection' = r.conn
       /\ endpointCooldowns' = r.cd
       /\ timers' = r.timers
       /\ ev' = [Ev0 EXCEPT !.op = name, !.rotated = r.rotated]

\* rotateConnection called by WalletTracker.processWallets (wallet-tracker.js, line 158)
rotateConnectionMonitor ==
    /\ impl = "monitor"
    /\ MoreRpcErrors
    /\ rpcErrors' = rpcErrors + 1
    /\ RotateMonitor(timers, "rotateConnection")
    /\ UNCHANGED <<now, impl, workload, nEndpoints, failureCount, failureTimes, endpointMetrics, priorityQueue,
                   requestQueue, isProcessingQueue, drainLoops, ops, nextId>>
    /\ UNCHANGED rlVars
    /\ UNCHANGED wtVars

\* rotateConnection resumed after the wait of line 117: return this.rotateConnection()
rotateConnectionAgainMonitor ==
    /\ impl = "monitor"
    /\ \E t \in timers :
         /\ t.kind = "rotate"
         /\ t.at <= now
         /\ RotateMonitor(timers \ {t}, "rotateConnectionAgain")
    /\ UNCHANGED <<now, impl, workload, nEndpoints, failureCount, failureTimes, endpointMetrics, priorityQueue,
                   requestQueue, isProcessingQueue, drainLoops, ops, nextId, rpcErrors>>
    /\ UNCHANGED rlVars
    /\ UNCHANGED wtVars

\* calculateEndpointScore, lines 491-497, in thousandths
calculateEndpointScoreRateLimits(m) == (300 * (100 - m.rateLimitHits)) \div 100
calculateEndpointScore(m) ==
    IF m.averageLatency = NaN \/ m.successCount + m.failureCount = 0
    THEN NaN
    ELSE (400 * m.successCount) \div (m.successCount + m.failureCount)
             + (300 * (1000 - m.averageLatency)) \div 1000
             + (300 * (100 - m.rateLimitHits)) \div 100

\* metrics[0].endpoint of lines 477-484: the entries of endpointMetrics, in the
\* order of the configuration, sorted by descending score; a comparison with a
\* NaN gives NaN, which sort takes as equal, and the sort is stable
bestEndpoint(metrics) ==
    CHOOSE e \in Endpoints :
        /\ \A x \in Endpoints :
               ~GreaterThan(calculateEndpointScore(metrics[x]), calculateEndpointScore(metrics[e]))
        /\ \A x \in Endpoints :
               (\A y \in Endpoints :
                    ~GreaterThan(calculateEndpointScore(metrics[y]),
                                 calculateEndpointScore(metrics[x])))
                 => e <= x

\* selectBestEndpoint, lines 475-489, with the rotateConnection it calls (and does
\* not await) up to its first await
selectBestEndpointMonitor ==
    /\ impl = "monitor"
    /\ LET best == bestEndpoint(endpointMetrics) IN
       IF best # currentRpcIndex
       THEN LET r == rotateConnection(best, connection, endpointCooldowns,
                                      endpointMetrics, timers)
            IN /\ currentRpcIndex' = r.idx
               /\ connection' = r.conn
               /\ endpointCooldowns' = r.cd
               /\ timers' = r.timers
               /\ ev' = [Ev0 EXCEPT !.op = "selectBestEndpoint", !.rotated = r.rotated]
       ELSE /\ UNCHANGED <<currentRpcIndex, connection, endpointCooldowns, timers>>
            /\ ev' = [Ev0 EXCEPT !.op = "selectBestEndpoint"]
    /\ UNCHANGED <<now, impl, workload, nEndpoints, failureCount, failureTimes, endpointMetrics, priorityQueue,
                   requestQueue, isProcessingQueue, drainLoops, ops, nextId, rpcErrors>>
    /\ UNCHANGED rlVars
    /\ UNCHANGED wtVars

MonitorConstructed ==
    /\ impl = "monitor"
    /\ nEndpoints = NumEndpointsMonitor
    /\ currentRpcIndex = 0
    /\ connection = 0
    /\ failureCount = [e \in 0 .. (NumEndpointsMonitor - 1) |-> 0]
    /\ failureTimes = [e \in 0 .. (NumEndpointsMonitor - 1) |-> <<>>]
    /\ endpointCooldowns = [e \in 0 .. (NumEndpointsMonitor - 1) |-> 0]
    /\ endpointMetrics = [e \in 0 .. (NumEndpointsMonitor - 1) |-> InitialMetrics]
    /\ timers = {}
    /\ priorityQueue = <<>>
    /\ requestQueue = <<>>
    /\ isProcessingQueue = FALSE
    /\ drainLoops = {}
    /\ ops = {}
    /\ nextId = 0
    /\ rpcErrors = 0
    /\ now = 0
    /\ ev = Ev0
    /\ tokens = 0
    /\ lastRefill = 0
    /\ rlFailureCount = 0
    /\ getTokenCalls = <<>>
    /\ failurePending = 0
    /\ returned = NotCounted
    /\ NoWalletTracker

InitMonitor == MonitorConstructed /\ workload = "api"

NextMonitor ==
    \/ queueRequestMonitor
    \/ processQueueMonitor
    \/ operationSettlesMonitor
    \/ retryMonitor
    \/ rotateConnectionMonitor
    \/ rotateConnectionAgainMonitor
    \/ resetTimerFires
    \/ TickTM

SpecMonitor == InitMonitor /\ [][NextMonitor]_vars

\* part_001 with the endpoint selection of selectBestEndpoint, under a light workload
InitMonitorLight == MonitorConstructed /\ workload = "light"

NextMonitorSelect == NextMonitor \/ selectBestEndpointMonitor

SpecMonitorSelect == InitMonitorLight /\ [][NextMonitorSelect]_vars

(***************************************************************************)
(* Either TokenMonitor class                                               *)
(***************************************************************************)
InitTokenMonitor == InitLogger \/ InitMonitor

NextTokenMonitor == NextLogger \/ NextMonitor

SpecTokenMonitor == InitTokenMonitor /\ [][NextTokenMonitor]_vars

\* the callbacks of setTimeout: the event loop runs each of them once its
\* deadline is reached, and time goes on
TimerCallbacks ==
    \/ resetTimerFires
    \/ backoffEndsLogger
    \/ batchIntervalLogger
    \/ retryMonitor
    \/ rotateConnectionAgainMonitor

\* either class under a light workload, which does not get as far as
\* executeFallbackStrategy
InitTokenMonitorLight == (LoggerConstructed \/ MonitorConstructed) /\ workload = "light"

NextTokenMonitorLight ==
    \/ queueRequestLogger
    \/ processQueueLogger
    \/ batchIntervalLogger
    \/ operationSucceedsLogger
    \/ operationRateLimitedLogger
    \/ operationFailsLogger
    \/ backoffEndsLogger
    \/ handleRpcErrorLogger
    \/ NextMonitor

SpecTokenMonitorFair ==
    /\ InitTokenMonitorLight
    /\ [][NextTokenMonitorLight]_vars
    /\ WF_vars(TickTM)
    /\ WF_vars(TimerCallbacks)

\* the setInterval of the constructor calls processQueue every 100 ms
QueueInterval == processQueueLogger \/ processQueueMonitor

\* an operation in flight settles
OperationsComplete ==
    \/ operationSucceedsLogger
    \/ operationRateLimitedLogger
    \/ operationFailsLogger
    \/ operationSettlesMonitor

\* either class under the light workload, with the event loop running the timer
\* and interval callbacks and with operations that complete
SpecQueueFair ==
    /\ InitTokenMonitorLight
    /\ [][NextTokenMonitorLight]_vars
    /\ WF_vars(TickTM)
    /\ WF_vars(TimerCallbacks)
    /\ WF_vars(QueueInterval)
    /\ WF_vars(OperationsComplete)

(***************************************************************************)
(* WalletTracker of src/src/wallet-tracker.js: extractMemecoinTransaction  *)
(***************************************************************************)
MaxSignatures == 3
Signatures == 1 .. MaxSignatures

\* the RateLimiter and the TokenMonitor are not part of the WalletTracker runs
NoRateLimiter ==
    /\ tokens = 0
    /\ lastRefill = 0
    /\ rlFailureCount = 0
    /\ getTokenCalls = <<>>
    /\ failurePending = 0
    /\ returned = NotCounted

\* the arguments extractMemecoinTransaction is called with: a parsed transaction
\* (processTransactions, line 224), which may lack the token program instruction,
\* the mint or the signatures; an alert record, which has no transaction property
\* (checkWalletActivity, line 174); or null
Transactions ==
    {[kind |-> "tx", sig |-> s, tokenIx |-> t, mint |-> m, signatures |-> g] :
        s \in Signatures, t \in BOOLEAN, m \in BOOLEAN, g \in BOOLEAN}
      \cup {[kind |-> k, sig |-> s, tokenIx |-> FALSE, mint |-> FALSE, signatures |-> FALSE] :
              k \in {"record", "null"}, s \in Signatures}

NullResult == [kind |-> "null", sig |-> 0]

\* extractMemecoinTransaction(tx, wallet), lines 241-281; it has no await, so a
\* call runs from its first line to its return without interleaving
extractMemecoinTransactionNoCheck(tx, sent) ==
    IF tx.kind = "tx" /\ tx.tokenIx /\ tx.mint /\ tx.signatures
    THEN [result |-> [kind |-> "record", sig |-> tx.sig], sent |-> sent \cup {tx.sig}]
    ELSE [result |-> NullResult, sent |-> sent]
extractMemecoinTransaction(tx, sent) ==
    IF tx.kind # "tx" THEN [result |-> NullResult, sent |-> sent]          \* line 244
    ELSE IF ~tx.tokenIx THEN [result |-> NullResult, sent |-> sent]        \* line 252
    ELSE IF ~tx.mint THEN [result |-> NullResult, sent |-> sent]           \* line 258
    ELSE IF ~tx.signatures THEN [result |-> NullResult, sent |-> sent]     \* lines 262, 277
    ELSE IF tx.sig \in sent THEN [result |-> NullResult, sent |-> sent]    \* line 263
    ELSE [result |-> [kind |-> "record", sig |-> tx.sig], sent |-> sent \cup {tx.sig}]

\* one call of extractMemecoinTransaction
extractCall ==
    /\ \E tx \in Transactions :
         LET r == extractMemecoinTransaction(tx, sentAlerts) IN
         /\ sentAlerts' = r.sent
         /\ alertsReturned' =
                IF r.result.kind = "record"
                THEN [alertsReturned EXCEPT ![tx.sig] = @ + 1]
                ELSE alertsReturned
         /\ ev' = [op |-> "extractMemecoinTransaction", tx |-> tx, result |-> r.result]
    /\ UNCHANGED <<now, lastWalletCheck, trackCalls, checkStart, nextTracking>>
    /\ UNCHANGED rlVars
    /\ UNCHANGED tmVars

InitExtract ==
    /\ NoTokenMonitor
    /\ NoRateLimiter
    /\ now = 0
    /\ ev = [op |-> "init", tx |-> [kind |-> "null", sig |-> 1, tokenIx |-> FALSE,
                                    mint |-> FALSE, signatures |-> FALSE],
             result |-> NullResult]
    /\ sentAlerts = {}
    /\ alertsReturned = [s \in Signatures |-> 0]
    /\ lastWalletCheck = <<>>
    /\ trackCalls = {}
    /\ checkStart = <<>>
    /\ nextTracking = 0

NextExtract == extractCall

SpecExtract == InitExtract /\ [][NextExtract]_vars

(***************************************************************************)
(* WalletTracker of src/unnamed/part_006: trackWalletTransactions, called  *)
(* by the interval timer of TokenMonitor.startMonitoring                   *)
(***************************************************************************)
WALLET_CHECK_INTERVAL == 30000
WALLET_BATCH_SIZE == 2
WALLET_BATCH_DELAY == 2000
walletTrackingInterval == 30000

NumWallets == 3
Wallets == 1 .. NumWallets
\* Date.now() when monitoring starts; every real clock value is past the first
\* WALLET_CHECK_INTERVAL, so that a wallet never checked (lastCheck 0) is eligible
DateNowStart == 30000
MaxTimeWT == 100000
StepsWT == {2000, 10000}
Never == 0 - 1

\* chunkArray(array, size), lines 196-202
RECURSIVE chunkArray(_, _)
chunkArray(array, size) ==
    IF Len(array) = 0 THEN <<>>
    ELSE IF Len(array) <= size THEN <<array>>
    ELSE <<SubSeq(array, 1, size)>> \o chunkArray(SubSeq(array, size + 1, Len(array)), size)

\* trackedWallets.filter(...), lines 61-64, in the order of trackedWallets
isEligibleWallet(last, t, w) == (t - last[w]) >= WALLET_CHECK_INTERVAL
RECURSIVE eligibleFrom(_, _, _)
eligibleFrom(w, last, t) ==
    IF w > NumWallets THEN <<>>
    ELSE (IF isEligibleWallet(last, t, w) THEN <<w>> ELSE <<>>) \o eligibleFrom(w + 1, last, t)
eligibleWallets(last, t) == eligibleFrom(1, last, t)

SeqRange(q) == {q[i] : i \in 1 .. Len(q)}

\* batch.map(wallet => this.processWalletTransactions(wallet)), line 73: the
\* checks of a batch start here, each with the time of the wallet's previous start
Started(batch) == {[wallet |-> w, previous |-> checkStart[w]] : w \in SeqRange(batch)}
StartChecks(batch) == [w \in Wallets |-> IF w \in SeqRange(batch) THEN now ELSE checkStart[w]]

\* the interval timer of startMonitoring fires (logger.js:224-236) and calls
\* trackWalletTransactions, which runs to its first await (lines 60-74)
trackWalletTransactions ==
    /\ now = nextTracking
    /\ nextTracking' = now + walletTrackingInterval
    /\ LET walletBatches == chunkArray(eligibleWallets(lastWalletCheck, now), WALLET_BATCH_SIZE) IN
       IF Len(walletBatches) = 0
       THEN /\ ev' = [op |-> "trackNone", started |-> {}]
            /\ UNCHANGED <<trackCalls, checkStart>>
       ELSE /\ trackCalls' = trackCalls \cup
                   {[now0 |-> now, batches |-> walletBatches, at |-> 1, pc |-> "checks", wake |-> 0]}
            /\ checkStart' = StartChecks(walletBatches[1])
            /\ ev' = [op |-> "track", started |-> Started(walletBatches[1])]
    /\ UNCHANGED <<now, lastWalletCheck, sentAlerts, alertsReturned>>
    /\ UNCHANGED rlVars
    /\ UNCHANGED tmVars

\* what a call does once a batch is done with: the checks of the next batch, or
\* return null (lines 71-74, 95)
NextBatch(c, others) ==
    IF c.at < Len(c.batches)
    THEN /\ trackCalls' = others \cup {[c EXCEPT !.at = c.at + 1, !.pc = "checks", !.wake = 0]}
         /\ checkStart' = StartChecks(c.batches[c.at + 1])
         /\ ev' = [op |-> "nextBatch", started |-> Started(c.batches[c.at + 1])]
    ELSE /\ trackCalls' = others
         /\ UNCHANGED checkStart
         /\ ev' = [op |-> "trackReturns", started |-> {}]

\* Promise.all of a batch resolves, lines 74-84: every check has returned (a check
\* catches its errors and returns [], part_006:124-171); the wallets of the batch
\* get the time the call began
batchSettles ==
    /\ \E c \in trackCalls :
         /\ c.pc = "checks"
         /\ lastWalletCheck' = [w \in Wallets |->
                IF w \in SeqRange(c.batches[c.at]) THEN c.now0 ELSE lastWalletCheck[w]]
         /\ IF Len(c.batches) > 1
            THEN /\ trackCalls' = (trackCalls \ {c}) \cup
                        {[c EXCEPT !.pc = "delay", !.wake = now + WALLET_BATCH_DELAY]}
                 /\ UNCHANGED checkStart
                 /\ ev' = [op |-> "batchSettles", started |-> {}]
            ELSE NextBatch(c, trackCalls \ {c})
    /\ UNCHANGED <<now, nextTracking, sentAlerts, alertsReturned>>
    /\ UNCHANGED rlVars
    /\ UNCHANGED tmVars

\* the delay between batches ends, lines 83-89: no result is valid, as every check
\* returns [] or nothing, and the loop goes on
batchDelayEnds ==
    /\ \E c \in trackCalls :
         /\ c.pc = "delay"
         /\ c.wake = now
         /\ NextBatch(c, trackCalls \ {c})
    /\ UNCHANGED <<now, nextTracking, lastWalletCheck, sentAlerts, alertsReturned>>
    /\ UNCHANGED rlVars
    /\ UNCHANGED tmVars

\* time passes, never beyond a timer that is due
TickWT ==
    /\ \E d \in StepsWT :
         /\ now + d <= MaxTimeWT
         /\ now + d <= nextTracking
         /\ \A c \in trackCalls : c.pc = "delay" => now + d <= c.wake
         /\ now' = now + d
    /\ ev' = [op |-> "tick", started |-> {}]
    /\ UNCHANGED <<nextTracking, lastWalletCheck, trackCalls, checkStart, sentAlerts, alertsReturned>>
    /\ UNCHANGED rlVars
    /\ UNCHANGED tmVars

InitTracking ==
    /\ NoTokenMonitor
    /\ NoRateLimiter
    /\ now = DateNowStart
    /\ ev = [op |-> "init", started |-> {}]
    /\ sentAlerts = {}
    /\ alertsReturned = <<>>
    /\ lastWalletCheck = [w \in Wallets |-> 0]
    /\ trackCalls = {}
    /\ checkStart = [w \in Wallets |-> Never]
    /\ nextTracking = DateNowStart + walletTrackingInterval

NextTracking == trackWalletTransactions \/ batchSettles \/ batchDelayEnds \/ TickWT

SpecTracking == InitTracking /\ [][NextTracking]_vars

(***************************************************************************)
(* Properties                                                              *)
(***************************************************************************)
BatchSize == IF impl = "logger" THEN BATCH_SIZE_LOGGER ELSE BATCH_SIZE_MONITOR

\* the requests the last step has taken from the queues
Taken == SeqToSet(ev.batch) \cup SeqToSet(ev.dropped)

\* the endpoints that are neither cooling nor circuit-open
Eligible ==
    {e \in Endpoints : ~isEndpointCooling(endpointCooldowns, e)
                          /\ ~isCircuitOpen(failureCount, e)}

\* C1: in the TokenMonitor of logger.js, executeWithCircuitBreaker never calls
\* operation(this.connection) against an endpoint whose failure count has reached
\* FAILURE_THRESHOLD: every endpoint an operation was invoked against in the last
\* step has a closed circuit.
C1_NoInvocationOnOpenCircuit ==
    impl = "logger" => \A e \in ev.invoked : ~isCircuitOpen(failureCount, e)

\* an executeWithCircuitBreaker call has just found the circuit of its endpoint
\* open and was diverted into its backoff wait
C1_Witness ==
    /\ impl = "logger"
    /\ ev.op \in {"queueRequest", "processQueue", "nextBatch", "retry"}
    /\ \E o \in ops : /\ o.pc = "backoffOpen"
                      /\ o.wake = now + BACKOFF_TIME(o.attempt)
                      /\ isCircuitOpen(failureCount, o.endpoint)

\* C2: in the TokenMonitor of part_001, processQueue (through
\* executeWithCircuitBreaker) never invokes an operation against the active
\* endpoint while its failureCount entry is FAILURE_THRESHOLD or more.
C2_MonitorNoInvocationOnOpenCircuit ==
    (impl = "monitor" /\ ev.op \in {"queueRequest", "processQueue", "retry"})
        => \A e \in ev.invoked : failureCount[e] < FAILURE_THRESHOLD

\* C5: an endpoint that rotation (rotateEndpoint, rotateConnection) has made
\* active in the last step is not within its cooldown window: now >= cooldownUntil.
C5_RotationSkipsCooling ==
    \A e \in ev.rotated : ~isEndpointCooling(endpointCooldowns, e)

\* rotation has made an endpoint active while another endpoint was cooling
C5_Witness ==
    /\ ev.rotated # {}
    /\ \E e \in Endpoints : isEndpointCooling(endpointCooldowns, e)

\* C6: an endpoint that rotation (rotateEndpoint, rotateConnection) has made
\* active in the last step does not have an open circuit: its failure count is
\* below FAILURE_THRESHOLD.
C6_RotationSkipsOpenCircuit ==
    \A e \in ev.rotated : ~isCircuitOpen(failureCount, e)

\* C7: when rotateConnection has run and two or more endpoints are eligible (not
\* cooling, circuit closed), the active endpoint is an eligible one of the
\* highest health score, and among those of the lowest consecutiveFailures.
C7_RotationPicksHealthiest ==
    (/\ impl = "monitor"
     /\ ev.op \in {"rateLimited", "rotateConnection", "rotateConnectionAgain"}
     /\ Cardinality(Eligible) >= 2)
        => /\ currentRpcIndex \in Eligible
           /\ \A e \in Eligible :
                LET hc == getEndpointHealth(endpointMetrics[currentRpcIndex])
                    he == getEndpointHealth(endpointMetrics[e])
                IN /\ ~GreaterThan(he, hc)
                   /\ he = hc => ~GreaterThan(endpointMetrics[currentRpcIndex].consecutiveFailures,
                                              endpointMetrics[e].consecutiveFailures)

\* C8: in a batch formed by processQueue the priority requests come first and each
\* class is in FIFO order; a normal request is taken only when no priority
\* request is left; the requests taken are the oldest of their queue; the batch
\* holds at most BATCH_SIZE requests, and fewer only when both queues are used up.
C8_PriorityFirst ==
    LET b == ev.batch IN
    /\ Len(b) <= BatchSize
    /\ \A i, j \in 1 .. Len(b) :
         i < j => /\ b[j].priority => b[i].priority
                  /\ b[i].priority = b[j].priority => b[i].id < b[j].id
    /\ (\E x \in Taken : ~x.priority) => priorityQueue = <<>>
    /\ \A x \in Taken :
         \A y \in SeqToSet(IF x.priority THEN priorityQueue ELSE requestQueue) : x.id < y.id
    /\ (Taken # {} /\ Len(b) < BatchSize) => (priorityQueue = <<>> /\ requestQueue = <<>>)

\* a full batch in which a priority request has overtaken older normal requests,
\* with a normal request left behind
C8_Witness ==
    /\ impl = "logger"
    /\ Len(ev.batch) = BATCH_SIZE_LOGGER
    /\ ev.batch[1].priority
    /\ ~ev.batch[BATCH_SIZE_LOGGER].priority
    /\ ev.batch[1].id > ev.batch[BATCH_SIZE_LOGGER].id
    /\ Len(requestQueue) > 0

\* C9: in part_001, a request whose age has reached STALE_LIMIT when the batch is
\* formed is removed from its queue and is not started: it is in neither queue,
\* not in the batch and not among the operations in progress, and every request
\* of the batch is younger than STALE_LIMIT.
C9_StaleDropped ==
    impl = "monitor" =>
        /\ \A x \in SeqToSet(ev.dropped) :
             /\ now - x.timestamp >= STALE_LIMIT
             /\ x.id \notin Ids(ev.batch)
             /\ x.id \notin {o.id : o \in ops}
             /\ x.id \notin Ids(priorityQueue) \cup Ids(requestQueue)
        /\ \A x \in SeqToSet(ev.batch) : now - x.timestamp < STALE_LIMIT

\* a batch formation has dropped a stale request
C9_Witness == impl = "monitor" /\ ev.dropped # <<>>

\* C10: at most one drain loop of processQueue is past its guard at any time,
\* isProcessingQueue is true exactly while there is one, and requests taken from
\* the queues in a step are taken by that one loop.
C10_SingleDrainLoop ==
    /\ Cardinality(drainLoops) <= 1
    /\ isProcessingQueue <=> drainLoops # {}
    /\ ev.batch # <<>> =>
         \A l \in drainLoops : l.pending = Ids(ev.batch) /\ l.phase = "batch"

\* processQueue was called while a drain loop was active and requests were
\* waiting, and it returned at its guard
C10_Witness ==
    /\ ev.op = "processQueueReturn"
    /\ isProcessingQueue
    /\ Cardinality(drainLoops) = 1
    /\ Len(priorityQueue) + Len(requestQueue) > 0

\* C11: when processQueue forms a batch, no operation of an earlier batch is
\* still in progress (in flight, in a backoff wait or waiting for its rescheduled
\* retry): the operations in progress are those of the batch just formed.
C11_BatchesNeverOverlap ==
    ev.batch # <<>> => \A o \in ops : o.id \in Ids(ev.batch)

\* C12: a promise of queueRequest that settles delivers the outcome of the
\* caller's own operation (its result, or its error), and settles only when that
\* operation is no longer queued or in progress.
C12_QueueRequestSettlesWithOwnOutcome ==
    \A s \in ev.settled :
        /\ s.of = s.caller
        /\ s.caller \notin Ids(priorityQueue) \cup Ids(requestQueue)
        /\ s.caller \notin {o.id : o \in ops}

\* C13: in part_001, a first execution that ends with a 429 triggers rotation
\* (rotateConnection runs: the active endpoint gets its cooldown) and leaves the
\* operation waiting RETRY_DELAY for its retry, without failing it and without
\* touching the other operations; a waiting operation is neither failed nor
\* dropped, and is executed again when its delay has elapsed; no operation is
\* executed again without having waited for its own retry, and none more than once.
C13_RetryOnceAfter429 ==
    [][impl = "monitor" =>
        /\ \A p \in ops' : p.attempt <= 1
        /\ \A o \in ops :
             LET after == {p \in ops' : p.id = o.id} IN
             /\ (o.pc = "inflight" /\ ev'.op = "rateLimited" /\ o \notin ops') =>
                    /\ after = {[o EXCEPT !.pc = "retryWait", !.wake = now + RETRY_DELAY]}
                    /\ ops' \ after = ops \ {o}
                    /\ drainLoops' = drainLoops
                    /\ ev'.settled = {}
                    /\ endpointCooldowns'[currentRpcIndex] = now + COOLDOWN_DURATION
                    /\ \/ ev'.rotated # {}
                       \/ \E t \in timers' : t.kind = "rotate" /\ t.at = now + SETTLE_DELAY
             /\ o.pc = "retryWait" =>
                    /\ after # {}
                    /\ \A p \in after :
                         \/ p.pc = "retryWait"
                         \/ p.pc = "inflight" /\ p.attempt = o.attempt + 1 /\ o.wake = now
             /\ \A p \in after :
                    (p.pc = "inflight" /\ p # o) => (o.pc = "retryWait" /\ ev'.op = "retry")
      ]_vars

\* an operation is executed for the second time while the other operation of its
\* batch is still in its first execution
C13_Witness ==
    /\ impl = "monitor"
    /\ ev.op = "retry"
    /\ \E l \in drainLoops, o, p \in ops :
         /\ o.pc = "inflight" /\ o.attempt = 1
         /\ p.pc = "inflight" /\ p.attempt = 0
         /\ {o.id, p.id} \subseteq l.pending

\* C14: in logger.js with the endpoints [A, B] = [0, 1], when the three
\* operations of a batch have each received a 429 from A at their first attempt
\* and wait in their backoff, A's circuit is open and A is in its cooldown window.
C14_ThreeRateLimitsIsolateA ==
    (/\ impl = "logger"
     /\ nEndpoints = 2
     /\ Cardinality({o \in ops : o.pc = "backoff429" /\ o.endpoint = 0 /\ o.attempt = 0}) = 3)
        => /\ isCircuitOpen(failureCount, 0)
           /\ isEndpointCooling(endpointCooldowns, 0)

\* C15: a step that closes an open circuit (the failure count of an endpoint
\* falls from FAILURE_THRESHOLD or more to less) happens only when RESET_INTERVAL
\* has elapsed since the circuit opened.  Every recorded failure schedules a
\* reset RESET_INTERVAL later, so the interval has elapsed since the opening
\* exactly when no scheduled reset of that endpoint lies in the future.
C15_OpenForResetInterval ==
    [][\A e \in Endpoints :
          (isCircuitOpen(failureCount, e) /\ ~isCircuitOpen(failureCount', e))
              => ~\E t \in timers' : t.kind = "reset" /\ t.arg = e /\ t.at > now'
      ]_vars

\* C16: while the circuit of an endpoint is open, a reset of that endpoint is
\* scheduled at most RESET_INTERVAL ahead; a reset that runs, runs at its
\* deadline and leaves the failure count of its endpoint at 0; and every open
\* circuit is closed again, with a failure count of 0, at some later time.
C16_OpenCircuitCloses ==
    /\ [](\A e \in Endpoints :
             isCircuitOpen(failureCount, e) =>
                 \E t \in timers : /\ t.kind = "reset" /\ t.arg = e
                                   /\ t.at >= now /\ t.at <= now + RESET_INTERVAL)
    /\ [][ev'.op = "reset" =>
             \E t \in timers \ timers' :
                 /\ t.kind = "reset" /\ t.at = now
                 /\ failureCount'[t.arg] = 0 /\ ~isCircuitOpen(failureCount', t.arg)]_vars
    /\ \A e \in 0 .. (Max(NumEndpointsLogger, NumEndpointsMonitor) - 1) :
           (e \in Endpoints /\ isCircuitOpen(failureCount, e))
               ~> (e \in Endpoints /\ failureCount[e] = 0)

\* a reset timer has just closed an open circuit
C16_Witness ==
    /\ ev.op = "reset"
    /\ ev.closed # {}
    /\ \A e \in ev.closed : failureCount[e] = 0

\* C17: in logger.js, when operation(this.connection) of executeWithCircuitBreaker
\* resolves, the failure count of the endpoint the operation was dispatched to is
\* 0 after that step, and the counts of the other endpoints are as before.
C17_SuccessResetsFailures ==
    [][(impl = "logger" /\ ev'.op = "success") =>
          \E o \in ops \ ops' :
              /\ o.pc = "inflight"
              /\ failureCount'[o.target] = 0
              /\ \A e \in Endpoints \ {o.target} : failureCount'[e] = failureCount[e]
      ]_vars

\* a success has taken a failure count from FAILURE_THRESHOLD or more to 0
C17_Witness ==
    /\ impl = "logger"
    /\ ev.op = "success"
    /\ \E e \in ev.closed : failureCount[e] = 0

\* C18: extractMemecoinTransaction of wallet-tracker.js returns an alert record
\* for a signature at most once; a record it returns is for the signature of
\* the transaction it was called with, which is in sentAlerts from then on.
C18_AlertAtMostOnce ==
    /\ \A s \in Signatures : alertsReturned[s] <= 1
    /\ \A s \in Signatures : alertsReturned[s] = 1 <=> s \in sentAlerts
    /\ ev.result.kind = "record" => (ev.result.sig = ev.tx.sig /\ ev.tx.sig \in sentAlerts)

\* a complete transaction whose signature had been alerted before has come again
\* and has been answered with null
C18_Witness ==
    /\ ev.op = "extractMemecoinTransaction"
    /\ ev.tx.kind = "tx" /\ ev.tx.tokenIx /\ ev.tx.mint /\ ev.tx.signatures
    /\ ev.result.kind = "null"
    /\ alertsReturned[ev.tx.sig] = 1

\* C19: in part_006 a check of a wallet starts only if at least
\* WALLET_CHECK_INTERVAL has passed since the previous check of that wallet
\* started, for any timing and overlap of the trackWalletTransactions calls.
C19_ChecksAtLeastIntervalApart ==
    \A s \in ev.started : s.previous # Never => now - s.previous >= WALLET_CHECK_INTERVAL

\* C20: every getToken call returns: a call is suspended at most once, for the
\* time _calculateWaitTime gives, which is at most maxDelay; when its timer
\* fires the call takes its token and returns without a second wait; and no
\* call stays suspended forever.
C20_GetTokenReturns ==
    /\ [](/\ \A i \in 1 .. Len(getTokenCalls) :
               now <= getTokenCalls[i] /\ getTokenCalls[i] <= now + maxDelay
          /\ ev.op = "getTokenWait" => (ev.wait <= maxDelay /\ ev.wait = calculateWaitTime(ev.fc)))
    /\ [][/\ ev'.op = "getTokenWait" =>
               /\ Len(getTokenCalls') = Len(getTokenCalls) + 1
               /\ \E i \in 1 .. Len(getTokenCalls') : getTokenCalls'[i] = now + ev'.wait
          /\ ev'.op = "getToken" => getTokenCalls' = getTokenCalls
          /\ ev'.op = "getTokenResume" =>
               /\ getTokenCalls' = Tail(getTokenCalls)
               /\ Head(getTokenCalls) = now
               /\ tokens' = ev'.refilled - TokenScale]_vars
    /\ []<>(getTokenCalls = <<>>)

\* a call suspended for the longest wait, 16 s at a failure count of 3 or more,
\* has been resumed and has returned
C20_Witness ==
    /\ ev.op = "getTokenResume"
    /\ rlFailureCount >= 3
    /\ now >= calculateWaitTime(rlFailureCount)
    /\ getTokenCalls = <<>>

\* C21: in part_001 currentRpcIndex is always an index of the configured
\* endpoints and this.connection is always the connection of
\* endpoints[currentRpcIndex], also while a rotateConnection call is suspended
\* at its await and when selectBestEndpoint has run.
C21_OneActiveEndpoint ==
    impl = "monitor" => (currentRpcIndex \in Endpoints /\ connection = currentRpcIndex)

\* selectBestEndpoint has run while a rotateConnection call is suspended at its
\* 30 s wait and the endpoints' metrics differ
C21_Witness ==
    /\ impl = "monitor"
    /\ ev.op = "selectBestEndpoint"
    /\ \E t \in timers : t.kind = "rotate"
    /\ \E e \in Endpoints : endpointMetrics[e].rateLimitHits > 0
    /\ \E e \in Endpoints : endpointMetrics[e].rateLimitHits = 0

\* C22: an item enqueued by queueRequest leaves its queue only by being taken
\* into a batch or dropped as stale, and, provided the operations in flight
\* complete, every item does leave its queue, also after an operation of an
\* earlier batch has failed.
Queued == Ids(priorityQueue) \cup Ids(requestQueue)

C22_QueuedItemsLeave ==
    /\ [][\A id \in Queued : id \notin Queued' => id \in Ids(ev'.batch) \cup Ids(ev'.dropped)]_vars
    /\ \A id \in 1 .. Max(MaxRequestsLoggerLight, MaxRequestsMonitorLight) :
           (id \in Queued) ~> (id \notin Queued)

\* an item that was queued while an operation of an earlier batch failed has been
\* taken into a batch by the processQueue call of the interval
C22_Witness ==
    /\ impl = "monitor"
    /\ ev.op = "processQueue"
    /\ ev.batch # <<>>
    /\ \E e \in Endpoints : endpointMetrics[e].failureCount > 0
    /\ \E x \in SeqToSet(ev.batch) : x.id > 1

\* C23: when getToken finds fewer than 1 token after refilling, it suspends the
\* caller for min(baseDelay * 2^failureCount, maxDelay), for every failureCount.
C23_WaitIsExponentialUpToMaxDelay ==
    ev.op = "getTokenWait" =>
        /\ ev.refilled < TokenScale
        /\ ev.wait = Min(baseDelay * Pow2(ev.fc), maxDelay)

\* C24: recordFailure increments failureCount by 1 and sets tokens to 0, and the
\* next getToken call after it suspends its caller for the backoff delay of the
\* incremented failureCount, whatever time has passed between the two calls.
C24_FailureForcesBackoff ==
    /\ ev.op = "recordFailure" => (tokens = 0 /\ failurePending = rlFailureCount)
    /\ (ev.op \in {"getToken", "getTokenWait"} /\ ev.afterFailure > 0) =>
           /\ ev.op = "getTokenWait"
           /\ ev.wait = calculateWaitTime(ev.afterFailure)

\* C25: every operation dispatched by processQueue has acquired a token of the
\* RateLimiter before its network call is started: the step that starts
\* operation(this.connection) takes the token, or follows the return of getToken.
NetworkCallsStarted == {o \in ops' : o.pc = "inflight" /\ o \notin ops}

C25_TokenBeforeNetworkCall ==
    [][NetworkCallsStarted # {} =>
           \/ tokens' # tokens
           \/ lastRefill' # lastRefill
           \/ ev.op \in {"getToken", "getTokenResume"}]_vars

\* C26: when rotateConnection of part_001 finds no eligible endpoint, it sleeps
\* the settle interval and retries the selection once; a retry that finds no
\* eligible endpoint either does not sleep and retry again.
C26_RotationRetriesOnce ==
    [][(impl = "monitor" /\ ev'.op = "rotateConnectionAgain" /\ ev'.rotated = {}) =>
           \A t \in timers' : t.kind = "rotate" => t \in timers]_vars

\* C27: in part_001 every rotation triggered by a rate-limit response puts the
\* endpoint that is active into cooldown until now + COOLDOWN_DURATION before
\* an endpoint is chosen, so that it is not the one chosen, whether or not its
\* circuit is open; the cooldowns of the other endpoints are left alone.
C27_RotationSetsCooldown ==
    [][(impl = "monitor" /\ ev'.op \in {"rateLimited", "rotateConnection"}) =>
           /\ endpointCooldowns'[currentRpcIndex] = now + COOLDOWN_DURATION
           /\ \A e \in Endpoints \ {currentRpcIndex} :
                  endpointCooldowns'[e] = endpointCooldowns[e]
           /\ currentRpcIndex \notin ev'.rotated]_vars

\* a 429 of a queued operation has triggered the rotation while the circuit of
\* the active endpoint is closed and the endpoint was not cooling
C27_Witness ==
    /\ impl = "monitor"
    /\ ev.op = "rateLimited"
    /\ ~isCircuitOpen(failureCount, currentRpcIndex)
    /\ endpointCooldowns[currentRpcIndex] = now + COOLDOWN_DURATION

\* C28: in part_001, after a rate-limit response of endpoint E has triggered the
\* rotation, no operation is dispatched to E, neither the rescheduled retry nor a
\* queued operation, until the cooldown of E has expired.
C28_NoDispatchToCoolingEndpoint ==
    impl = "monitor" => \A e \in ev.invoked : ~isEndpointCooling(endpointCooldowns, e)

\* C29: in executeWithCircuitBreaker of logger.js an operation that fails with an
\* error other than a 429 increments the failure count of its endpoint and,
\* while attempts remain, waits its backoff to be retried; no error reaches the
\* caller before the attempts are used up.
C29_TransientErrorIsRetried ==
    [][(impl = "logger" /\ ev'.op = "failure") =>
           \A o \in ops :
               (o.pc = "inflight" /\ o \notin ops') =>
                   /\ failureCount'[o.endpoint] > failureCount[o.endpoint]
                   /\ o.attempt + 1 < MAX_ATTEMPTS =>
                          /\ \E p \in ops' : p.id = o.id /\ p.pc \in Sleeping
                          /\ ev'.settled = {}]_vars

\* the class of logger.js with few requests and as many RPC errors as one call
\* of executeWithCircuitBreaker needs to use up its attempts, with the event
\* loop running the timer and interval callbacks and with operations, those of
\* executeFallbackStrategy too, that settle
InitLoggerBackoff == LoggerConstructed /\ workload = "backoff"

SpecLoggerFair ==
    /\ InitLoggerBackoff
    /\ [][NextLogger]_vars
    /\ WF_vars(TickTM)
    /\ WF_vars(TimerCallbacks)
    /\ WF_vars(QueueInterval)
    /\ WF_vars(OperationsComplete)
    /\ WF_vars(fallbackSettlesLogger)

\* the calls of executeWithCircuitBreaker that have not settled
Running == {o.id : o \in ops}

\* C30: in logger.js a 429 is not surfaced by executeWithCircuitBreaker: the call
\* stays alive after it; each attempt on a configured endpoint has its own
\* attempt number below 2 x endpoints; the fallback starts only when these
\* numbers are used up, with the first backup endpoint, and goes on to the next
\* one in order; out of the fallback the error reaches the caller only after the
\* last backup endpoint has failed; and every call settles.
C30_RateLimitIsNotSurfaced ==
    /\ [][impl = "logger" =>
             /\ ev'.op = "rateLimited" => (ev'.settled = {} /\ Running' = Running)
             /\ \A p \in ops' \ ops :
                    /\ p.pc = "inflight" =>
                           /\ p.attempt < 2 * nEndpoints
                           /\ \A o \in ops : o.id = p.id => p.attempt = o.attempt + 1
                    /\ p.pc = "fallback" =>
                           \E o \in ops \ ops' :
                               /\ o.id = p.id
                               /\ o.attempt = 2 * nEndpoints
                               /\ \/ o.pc = "cooldown" /\ p.k = 1
                                  \/ o.pc = "fallback" /\ p.k = o.k + 1
             /\ (ev'.op = "fallbackSettled" /\ \E c \in ev'.settled : c.outcome = "error") =>
                    \E o \in ops \ ops' : o.pc = "fallback" /\ o.k = NumBackupEndpoints
             /\ \A c \in ev'.settled :
                    c.outcome = "error" => ev'.op \in {"failure", "fallbackSettled"}]_vars
    /\ \A id \in 1 .. MaxRequestsBackoff : (id \in Running) ~> (id \notin Running)

\* the caller of queueRequest gets the error of a call whose attempts all met a
\* 429 and whose backup endpoints both failed
C30_Witness ==
    /\ impl = "logger"
    /\ ev.op = "fallbackSettled"
    /\ \E c \in ev.settled : c.outcome = "error"
    /\ rpcErrors = 2 * nEndpoints

\* part_001 under the light workload with the event loop running the timer and
\* interval callbacks, and with operations that need not ever settle:
\* executeWithCircuitBreaker (lines 272-305) awaits operation(this.connection)
\* with no timer beside it
SpecMonitorPending ==
    /\ InitMonitorLight
    /\ [][NextMonitor]_vars
    /\ WF_vars(TickTM)
    /\ WF_vars(TimerCallbacks)
    /\ WF_vars(QueueInterval)

\* the operations whose network call is pending
InFlight == {o.id : o \in {x \in ops : x.pc = "inflight"}}

\* C31: in part_001 a network call dispatched by processQueue does not stay
\* pending forever, because a timeout settles it, and so every queued item
\* leaves its queue even when operations never complete by themselves.
C31_PendingOperationTimesOut ==
    \A id \in 1 .. MaxRequestsMonitorLight :
        /\ (id \in InFlight) ~> (id \notin InFlight)
        /\ (id \in Queued) ~> (id \notin Queued)

\* the monitoring loop of startMonitoring (wallet-tracker.js, lines 117-138) goes
\* on for ever, so that extractMemecoinTransaction is called again and again
SpecExtractFair == InitExtract /\ [][NextExtract]_vars /\ WF_vars(extractCall)

\* C32: in wallet-tracker.js no signature stays in sentAlerts for ever: each one
\* that was stored is removed again at some later time.
C32_SignaturesAreEvicted ==
    \A s \in Signatures : (s \in sentAlerts) ~> (s \notin sentAlerts)

\* a rotateConnection call is suspended in the wait of line 117
RotationSuspended == \E t \in timers : t.kind = "rotate"

\* C33: in part_001 every rotateConnection call returns: whenever a call is
\* suspended in its 30 s wait, a later state has no suspended call.
C33_RotateConnectionReturns ==
    (impl = "monitor" /\ RotationSuspended) ~> ~RotationSuspended

\* the RateLimiter after its constructor, with the returns of getToken counted
InitRLCount ==
    /\ NoTokenMonitor
    /\ now = 0
    /\ ev = [op |-> "init"]
    /\ tokens = maxTokens * TokenScale
    /\ lastRefill = 0
    /\ rlFailureCount = 0
    /\ getTokenCalls = <<>>
    /\ failurePending = 0
    /\ returned = 0
    /\ NoWalletTracker

SpecRLCount == InitRLCount /\ [][NextRL]_vars

\* C34: the number of getToken calls of the RateLimiter that return within T
\* seconds is at most maxTokens + refillRate * T; here for the intervals that
\* begin with the constructor.
C34_ReturnsWithinRate ==
    returned # NotCounted =>
        returned * TokenScale <= maxTokens * TokenScale + refillRate * now

\* C35: in part_001, the rotation that the 429 of a queued operation triggers
\* puts into cooldown the endpoint that operation was dispatched against and no
\* other one, also when another operation of the batch has triggered a rotation
\* before it.
C35_OnlyRateLimitedEndpointCools ==
    [][(impl = "monitor" /\ ev'.op = "rateLimited") =>
           \A o \in ops \ ops' :
               /\ endpointCooldowns'[o.endpoint] = now + COOLDOWN_DURATION
               /\ \A e \in Endpoints \ {o.endpoint} :
                      endpointCooldowns'[e] = endpointCooldowns[e]]_vars

\* the two operations of a batch have both received a 429 from endpoint 0, and
\* the rotation of the second one has run
C35_Witness ==
    /\ impl = "monitor"
    /\ ev.op = "rateLimited"
    /\ \E l \in drainLoops, o, p \in ops :
         /\ o # p
         /\ {o.id, p.id} \subseteq l.pending
         /\ o.pc = "retryWait" /\ p.pc = "retryWait"
         /\ o.endpoint = 0 /\ p.endpoint = 0
         /\ endpointMetrics[0].rateLimitHits = 2
         /\ isEndpointCooling(endpointCooldowns, 0)
         /\ \A e \in Endpoints \ {0} : endpointCooldowns[e] = 0

\* C36: in both classes the failure count of an endpoint is at most the number
\* of recordFailure calls made for it during the preceding RESET_INTERVAL.
C36_CountWithinResetInterval ==
    impl \in {"logger", "monitor"} =>
        \A e \in Endpoints : failureCount[e] <= Len(failureTimes[e])

\* two failures of an endpoint recorded at different instants are both counted,
\* while an earlier failure of that endpoint has been reset
C36_Witness ==
    /\ impl \in {"logger", "monitor"}
    /\ \E e \in Endpoints :
         /\ failureCount[e] = 2
         /\ Len(failureTimes[e]) = 3
         /\ failureTimes[e][1] = now
         /\ failureTimes[e][2] < failureTimes[e][3]

\* C37: in both classes, a step in which the drain loop of processQueue ends,
\* because the queues are empty or because an operation of its batch rejected,
\* leaves isProcessingQueue false; isProcessingQueue is never true without a
\* drain loop; and a processQueue call that finds it false with requests
\* queued takes them.
C37_GuardClearedOnExit ==
    /\ [][impl # "none" =>
             /\ drainLoops' = {} => ~isProcessingQueue'
             /\ (ev'.op = "processQueue" /\ ~isProcessingQueue /\ Queued # {}) =>
                    Len(ev'.batch) + Len(ev'.dropped) > 0]_vars
    /\ [](isProcessingQueue => drainLoops # {})

\* a drain loop has ended with the error of an operation while requests were
\* queued, and the guard is clear
C37_Witness ==
    /\ impl \in {"logger", "monitor"}
    /\ ev.op = "failure"
    /\ \E c \in ev.settled : c.outcome = "error"
    /\ drainLoops = {}
    /\ ~isProcessingQueue
    /\ Queued # {}

\* the filter of rotateConnection, lines 110-113, for the endpoint e of part_001
EligibleForRotation(e) ==
    /\ impl = "monitor"
    /\ ~isEndpointCooling(endpointCooldowns, e)
    /\ GreaterThan(getEndpointHealth(endpointMetrics[e]), HEALTHY_SCORE)

\* C38: in part_001 an endpoint that has received rate-limit responses passes
\* the filter of rotateConnection again at some later time, once its cooldown
\* has expired and the errors have stopped.
C38_RateLimitedEndpointRecovers ==
    \A e \in 0 .. (NumEndpointsMonitor - 1) :
        (impl = "monitor" /\ endpointMetrics[e].rateLimitHits > 0) ~> EligibleForRotation(e)

(***************************************************************************)
(* WalletTracker of src/src/wallet-tracker.js: checkWalletActivity, called *)
(* for one wallet after the other by processWallets                        *)
(***************************************************************************)
MaxFetched == 2   \* signatures that getRecentSignatures returns for a wallet

\* what getParsedTransaction resolves with for the signatures of a wallet, in
\* their order: a parsed transaction or null.  getSignaturesForAddress (line
\* 193) returns each signature of the wallet once
FetchedTransactions == {t \in Transactions : t.kind \in {"tx", "null"}}
Fetched ==
    {f \in UNION {[1 .. n -> FetchedTransactions] : n \in 0 .. MaxFetched} :
        \A i, j \in 1 .. Len(f) : f[i].sig = f[j].sig => i = j}

\* processTransactions(signatures), lines 203-239: the records that
\* extractMemecoinTransaction returns for the transactions fetched
RECURSIVE processTransactions(_, _)
processTransactions(fetched, sent) ==
    IF fetched = <<>> THEN [transactions |-> <<>>, sent |-> sent]
    ELSE LET tx == Head(fetched)
             r == IF tx.kind = "tx"                                     \* line 224
                  THEN extractMemecoinTransaction(tx, sent)
                  ELSE [result |-> NullResult, sent |-> sent]
             rest == processTransactions(Tail(fetched), r.sent)
         IN [transactions |-> IF r.result.kind = "record"              \* line 226
                              THEN <<r.result>> \o rest.transactions
                              ELSE rest.transactions,
             sent |-> rest.sent]

\* transactions.map(tx => this.extractMemecoinTransaction(tx, wallet)), lines
\* 175-176: the calls run one after the other, each to its return
RECURSIVE extractAll(_, _)
extractAll(transactions, sent) ==
    IF transactions = <<>> THEN [results |-> <<>>, sent |-> sent]
    ELSE LET r == extractMemecoinTransaction(Head(transactions), sent)
             rest == extractAll(Tail(transactions), r.sent)
         IN [results |-> <<r.result>> \o rest.results, sent |-> rest.sent]

NotNull(result) == result.kind # "null"

\* one pass of the loop of processWallets, lines 143-161, for a wallet whose
\* requests succeed: checkWalletActivity (166-184), the walletUpdate event and
\* its handler (handlers/telegram-handler.js, lines 59-63).  The filter of line 177 sees
\* promises, none of which is null, and keeps them all
checkWalletActivity ==
    /\ \E fetched \in Fetched :
         LET p == processTransactions(fetched, sentAlerts)
             x == extractAll(p.transactions, p.sent)
             memecoinTxs == x.results
             hasActivity == Len(memecoinTxs) > 0
             memecoinTransactions == SelectSeq(memecoinTxs, NotNull)
             records == p.transactions \o memecoinTransactions
         IN /\ sentAlerts' = x.sent
            /\ alertsReturned' =
                   [s \in Signatures |->
                       alertsReturned[s] + Len(SelectSeq(records, LAMBDA r : r.sig = s))]
            /\ ev' = [op |-> "checkWalletActivity", fetched |-> fetched,
                      emitted |-> hasActivity,
                      memecoinTransactions |-> {r.sig : r \in SeqToSet(memecoinTransactions)},
                      alert |-> hasActivity /\ Len(memecoinTransactions) > 0]
    /\ UNCHANGED <<now, lastWalletCheck, trackCalls, checkStart, nextTracking>>
    /\ UNCHANGED rlVars
    /\ UNCHANGED tmVars

InitActivity ==
    /\ NoTokenMonitor
    /\ NoRateLimiter
    /\ now = 0
    /\ ev = [op |-> "init", fetched |-> <<>>, emitted |-> FALSE,
             memecoinTransactions |-> {}, alert |-> FALSE]
    /\ sentAlerts = {}
    /\ alertsReturned = [s \in Signatures |-> 0]
    /\ lastWalletCheck = <<>>
    /\ trackCalls = {}
    /\ checkStart = <<>>
    /\ nextTracking = 0

NextActivity == checkWalletActivity

SpecActivity == InitActivity /\ [][NextActivity]_vars

\* C39: in wallet-tracker.js, a fetched transaction with a token-program
\* instruction, a mint and a signature that is not in sentAlerts makes
\* checkWalletActivity report activity, and the walletUpdate event carries the
\* transaction in memecoinTransactions, so that the handler sends an alert.
C39_NewTransactionIsAlerted ==
    [][ev'.op = "checkWalletActivity" =>
           \A i \in 1 .. Len(ev'.fetched) :
               LET tx == ev'.fetched[i] IN
               (/\ tx.kind = "tx" /\ tx.tokenIx /\ tx.mint /\ tx.signatures
                /\ tx.sig \notin sentAlerts) =>
                   /\ ev'.emitted
                   /\ tx.sig \in ev'.memecoinTransactions
                   /\ ev'.alert]_vars

====
